---- MODULE Spec2Model ----
(***************************************************************************)
(* A model of Game2048Env (src/2048_RL/env_2048.py): the board, the        *)
(* terminated flag and the random generator of one engine, driven through  *)
(* its constructor, reset and step; and of the line transform              *)
(* _compress_and_merge as a pure function of a line.                       *)
(***************************************************************************)
EXTENDS Integers, Sequences, FiniteSets, TLC

\* ------------------------------------------------------------------ bounds

\* Largest seed handed to the constructor or to reset.
MaxSeed == 0

\* Tiles one generator stream is asked for before the model stops asking.
MaxSpawns == 5

\* Longest line handed to the line transform on its own.
MaxLineLen == 4

\* Largest tile exponent of a line handed to the line transform on its own.
MaxExp == 3

\* Tiles the generator is asked for while the caller keeps an array.
MaxObsSpawns == 4

\* Tiles one generator stream is asked for while two engines are compared.
MaxPairSpawns == 6

\* Tiles the generator is asked for in one episode played to its end.
MaxGameSpawns == 32

\* ------------------------------------------------------------ the variables

VARIABLES
    constructed,  \* whether __init__ returned an engine (it raises otherwise)
    board_size,   \* self.board_size
    board,        \* self.board: [<<r, c>> -> tile], r, c in 0..board_size-1
    done,         \* self._done
    rng,          \* self.rng: [seed, pos], pos variates drawn since seeding
    op,           \* the last call: "init", "reset", "step" or "move" (_move)
    act,          \* the action argument of the last step
    err,          \* whether the last call raised
    obs,          \* the observation the last call returned
    reward,       \* the reward the last step returned
    terminated,   \* the terminated flag the last step returned
    was_done,     \* self._done on entry to the last call
    moved,        \* the last step's move changed the board (line 65)
    line,         \* a line handed to _compress_and_merge on its own
    applied,      \* whether the transform was applied to line
    new_line,     \* the line it returned
    gained,       \* the reward it returned
    twin,         \* a second engine: its board, _done, rng and last outputs
    oracle,       \* the variates the seeded generators handed out so far
    phase,        \* "free"; "paired" once both engines were reset with one
                  \* seed; "apart" once they were given different actions;
                  \* "restarted" once both were then reset without a seed
    held          \* an array a call returned, which the caller has kept

vars == <<constructed, board_size, board, done, rng, op, act, err, obs, reward,
          terminated, was_done, moved, line, applied, new_line, gained,
          twin, oracle, phase, held>>

engine_vars == <<constructed, board_size, board, done, rng, op, act, err, obs,
                 reward, terminated, was_done, moved>>

line_vars == <<line, applied, new_line, gained>>

pair_vars == <<twin, oracle, phase>>

caller_vars == <<held>>

\* ------------------------------------------------------------- arithmetic

\* (mutant) the merged tile is three times the tile.
Double32_triple(v) == v * 3

\* (mutant) the merged tile is four times the tile.
Double32_four(v) == v * 4

\* new_line[i] * 2 in np.int32, which wraps around at 2^31 (2^30 = 1073741824).
Double32(v) ==
    IF v >= 1073741824 THEN (v - 1073741824 - 1073741824) * 2
    ELSE IF v < -1073741824 THEN (v + 1073741824 + 1073741824) * 2
    ELSE v * 2

RECURSIVE Pow2(_)
Pow2(k) == IF k = 0 THEN 1 ELSE 2 * Pow2(k - 1)

RECURSIVE SeqSum(_)
SeqSum(s) == IF s = <<>> THEN 0 ELSE Head(s) + SeqSum(Tail(s))

Reverse(s) == [i \in 1..Len(s) |-> s[Len(s) + 1 - i]]

\* ---------------------------------------------------- _compress_and_merge

\* (mutant) the zeros are left in place.
NonZero_kept(l) == l

\* (mutant) the tiles of value 2 are dropped with the zeros.
NonZero_above2(l) == SelectSeq(l, LAMBDA v : v > 2)

\* line[line != 0]
NonZero(l) == SelectSeq(l, LAMBDA v : v # 0)

\* (mutant) skip is never set: the second tile of a merged pair is scanned again.
RECURSIVE MergeLoop_noskip(_, _, _, _, _)
MergeLoop_noskip(nl, i, skip, merged, g) ==
    IF i > Len(nl) THEN [merged |-> merged, gained |-> g]
    ELSE IF i + 1 <= Len(nl) /\ nl[i] = nl[i + 1]
         THEN MergeLoop_noskip(nl, i + 1, FALSE, Append(merged, nl[i] * 2),
                               g + nl[i] * 2)
         ELSE MergeLoop_noskip(nl, i + 1, FALSE, Append(merged, nl[i]), g)

\* (mutant) a merged pair leaves no tile behind.
RECURSIVE MergeLoop_both(_, _, _, _, _)
MergeLoop_both(nl, i, skip, merged, g) ==
    IF i > Len(nl) THEN [merged |-> merged, gained |-> g]
    ELSE IF skip THEN MergeLoop_both(nl, i + 1, FALSE, merged, g)
    ELSE IF i + 1 <= Len(nl) /\ nl[i] = nl[i + 1]
         THEN MergeLoop_both(nl, i + 1, TRUE, merged, g + nl[i] * 2)
         ELSE MergeLoop_both(nl, i + 1, FALSE, Append(merged, nl[i]), g)

\* The loop of lines 165-177 from index i on (i counts from 1 here).
RECURSIVE MergeLoop(_, _, _, _, _)
MergeLoop(nl, i, skip, merged, g) ==
    IF i > Len(nl) THEN [merged |-> merged, gained |-> g]
    ELSE IF skip THEN MergeLoop(nl, i + 1, FALSE, merged, g)
    ELSE IF i + 1 <= Len(nl) /\ nl[i] = nl[i + 1]
         THEN LET merged_value == Double32(nl[i])
              IN  MergeLoop(nl, i + 1, TRUE, Append(merged, merged_value),
                            g + merged_value)
         ELSE MergeLoop(nl, i + 1, FALSE, Append(merged, nl[i]), g)

\* (mutant) the line is padded with tiles of value 2.
PadZeros_twos(merged, size) ==
    [k \in 1..size |-> IF k <= Len(merged) THEN merged[k] ELSE 2]

\* result = zeros(size); result[:len(merged)] = merged
PadZeros(merged, size) ==
    [k \in 1..size |-> IF k <= Len(merged) THEN merged[k] ELSE 0]

\* (mutant) the reward of a line is the sum of its tiles.
compress_and_merge_sum(l) ==
    LET m == MergeLoop(NonZero(l), 1, FALSE, <<>>, 0)
    IN  [line |-> PadZeros(m.merged, Len(l)), gained |-> SeqSum(m.merged)]

\* (mutant) the line is returned as it came.
compress_and_merge_same(l) == [line |-> l, gained |-> 0]

compress_and_merge(l) ==
    LET size == Len(l)
        nl   == NonZero(l)
    IN  IF Len(nl) = 0
        THEN [line |-> [k \in 1..size |-> 0], gained |-> 0]
        ELSE LET m == MergeLoop(nl, 1, FALSE, <<>>, 0)
             IN  [line |-> PadZeros(m.merged, size), gained |-> m.gained]

\* ------------------------------------------------------------------ _move

Cells(n) == (0..(n - 1)) \X (0..(n - 1))

\* (mutant) the codes of Up and Down are exchanged.
LineCells_updown(n, action, k) ==
    IF action = 1 THEN [i \in 1..n |-> <<i - 1, k>>]
    ELSE IF action = 0 THEN [i \in 1..n |-> <<n - i, k>>]
    ELSE IF action = 2 THEN [i \in 1..n |-> <<k, i - 1>>]
    ELSE [i \in 1..n |-> <<k, n - i>>]

\* board[:, c], board[::-1, c], board[r, :], board[r, ::-1] for line k.
LineCells(n, action, k) ==
    IF action = 0 THEN [i \in 1..n |-> <<i - 1, k>>]
    ELSE IF action = 1 THEN [i \in 1..n |-> <<n - i, k>>]
    ELSE IF action = 2 THEN [i \in 1..n |-> <<k, i - 1>>]
    ELSE [i \in 1..n |-> <<k, n - i>>]

ReadLine(b, n, action, k) ==
    LET cs == LineCells(n, action, k) IN [i \in 1..n |-> b[cs[i]]]

\* (mutant) the line is written back from the near edge in every direction.
WriteLine_forward(b, n, action, k, l) ==
    LET cs == LineCells(n, IF action = 1 THEN 0
                           ELSE IF action = 3 THEN 2 ELSE action, k)
    IN  [p \in DOMAIN b |->
            IF \E i \in 1..n : cs[i] = p
            THEN l[CHOOSE i \in 1..n : cs[i] = p]
            ELSE b[p]]

WriteLine(b, n, action, k, l) ==
    LET cs == LineCells(n, action, k)
    IN  [p \in DOMAIN b |->
            IF \E i \in 1..n : cs[i] = p
            THEN l[CHOOSE i \in 1..n : cs[i] = p]
            ELSE b[p]]

\* (mutant) reward = gained: the reward of the last line only.
RECURSIVE MoveLoop_last(_, _, _, _, _)
MoveLoop_last(b, n, action, k, r) ==
    IF k >= n THEN [board |-> b, reward |-> r]
    ELSE LET cm == compress_and_merge(ReadLine(b, n, action, k))
         IN  MoveLoop_last(WriteLine(b, n, action, k, cm.line), n, action,
                           k + 1, cm.gained)

\* One branch of _move: the loop over the lines k..n-1 of the direction.
RECURSIVE MoveLoop(_, _, _, _, _)
MoveLoop(b, n, action, k, r) ==
    IF k >= n THEN [board |-> b, reward |-> r]
    ELSE LET cm == compress_and_merge(ReadLine(b, n, action, k))
         IN  MoveLoop(WriteLine(b, n, action, k, cm.line), n, action, k + 1,
                      r + cm.gained)

move(b, n, action) ==
    IF action \in {0, 1, 2, 3}
    THEN MoveLoop(b, n, action, 0, 0)
    ELSE [board |-> b, reward |-> 0]

\* -------------------------------------------------------------- _can_move

\* (mutant) the loop over the columns is missing.
can_move_rows(b, n) ==
    \/ \E p \in Cells(n) : b[p] = 0
    \/ \E r \in 0..(n - 1), c \in 0..(n - 2) : b[<<r, c>>] = b[<<r, c + 1>>]

\* (mutant) the test for an empty cell is missing.
can_move_pairs(b, n) ==
    \/ \E r \in 0..(n - 1), c \in 0..(n - 2) : b[<<r, c>>] = b[<<r, c + 1>>]
    \/ \E c \in 0..(n - 1), r \in 0..(n - 2) : b[<<r, c>>] = b[<<r + 1, c>>]

can_move(b, n) ==
    \/ \E p \in Cells(n) : b[p] = 0
    \/ \E r \in 0..(n - 1), c \in 0..(n - 2) : b[<<r, c>>] = b[<<r, c + 1>>]
    \/ \E c \in 0..(n - 1), r \in 0..(n - 2) : b[<<r, c>>] = b[<<r + 1, c>>]

\* ------------------------------------------------------- _add_random_tile

\* np.argwhere(board == 0): the empty cells in row-major order.
RowMajor(n) == [k \in 1..(n * n) |-> <<(k - 1) \div n, (k - 1) % n>>]

EmptyPositions(b, n) == SelectSeq(RowMajor(n), LAMBDA p : b[p] = 0)

\* The outcomes rng.randint(len) and rng.rand() < 0.1 can have on board b.
Draws(b, n) ==
    IF Len(EmptyPositions(b, n)) = 0
    THEN {[idx |-> 0, four |-> FALSE]}
    ELSE [idx : 0..(Len(EmptyPositions(b, n)) - 1), four : BOOLEAN]

\* (mutant) the tile spawned is 4 or 8.
add_random_tile_big(b, n, d) ==
    IF Len(EmptyPositions(b, n)) = 0 THEN b
    ELSE [b EXCEPT ![EmptyPositions(b, n)[d.idx + 1]] = IF d.four THEN 8 ELSE 4]

\* (mutant) idx indexes all the cells, not the empty ones.
add_random_tile_anycell(b, n, d) ==
    IF Len(EmptyPositions(b, n)) = 0 THEN b
    ELSE [b EXCEPT ![RowMajor(n)[d.idx + 1]] = IF d.four THEN 4 ELSE 2]

\* The board after _add_random_tile, its two variates being d.
add_random_tile(b, n, d) ==
    LET empty_positions == EmptyPositions(b, n)
    IN  IF Len(empty_positions) = 0 THEN b
        ELSE [b EXCEPT ![empty_positions[d.idx + 1]] =
                           IF d.four THEN 4 ELSE 2]

\* (mutant) the generator is left as it was.
Advance_none(g, b, n) == g

\* The generator after _add_random_tile on board b: two variates drawn, or none.
Advance(g, b, n) ==
    IF Len(EmptyPositions(b, n)) = 0 THEN g
    ELSE [g EXCEPT !.pos = @ + 2]

\* ------------------------------------------------------------- the inputs

\* seed=None, of the constructor and of reset.
NoSeed == -1

SeedInputs == {NoSeed} \cup (0..MaxSeed)

\* Board sizes handed to the constructor: one that np.zeros rejects, the two
\* degenerate sizes, and the smallest size on which tiles can slide and merge.
\* (The reachable boards of a 3x3 engine are beyond an exhaustive search.)
SizeInputs == {-1, 0, 1, 2}

\* Actions handed to step; action_space is Discrete(4).
Discrete == 4

ActionInputs == (-1)..Discrete

\* self.action_space.contains(action)
Contains(action) == action \in 0..(Discrete - 1)

ZeroBoard(n) == [p \in Cells(n) |-> 0]

\* --------------------------------------------------------------- __init__

\* np.zeros raises on a negative dimension; nothing else is checked.
InitRaises(size) == size < 0

Construct(size, seed) ==
    /\ constructed = ~InitRaises(size)
    /\ board_size = size
    /\ board = ZeroBoard(size)
    /\ done = FALSE
    /\ rng = [seed |-> seed, pos |-> 0]
    /\ op = "init"
    /\ act = 0
    /\ err = InitRaises(size)
    /\ obs = ZeroBoard(size)
    /\ reward = 0
    /\ terminated = FALSE
    /\ was_done = FALSE
    /\ moved = FALSE

\* ------------------------------------------------------------------ reset

\* (mutant) the seed of reset is ignored.
Reseed_keep(g, seed) == g

\* self.rng.seed(seed) when a seed is given.
Reseed(g, seed) == IF seed # NoSeed THEN [seed |-> seed, pos |-> 0] ELSE g

\* (mutant) one spawn only.
ResetSpawns_one(n, g, d1, d2) ==
    [board |-> add_random_tile(ZeroBoard(n), n, d1),
     rng |-> Advance(g, ZeroBoard(n), n)]

\* Lines 42-46: the board after reset, and the generator g after its two
\* spawns, their variates being d1 and d2.
ResetSpawns(n, g, d1, d2) ==
    LET b0 == ZeroBoard(n)
        b1 == add_random_tile(b0, n, d1)
        g1 == Advance(g, b0, n)
        b2 == add_random_tile(b1, n, d2)
        g2 == Advance(g1, b1, n)
    IN  [board |-> b2, rng |-> g2]

\* What the two spawns of reset can make of a board of each size: the board and
\* the number of variates drawn.
ResetOutcomes ==
    [n \in {m \in SizeInputs : m >= 0} |->
        UNION {{[board |-> ResetSpawns(n, [seed |-> NoSeed, pos |-> 0], d1, d2).board,
                 drawn |-> ResetSpawns(n, [seed |-> NoSeed, pos |-> 0], d1, d2).rng.pos] :
                d2 \in Draws(add_random_tile(ZeroBoard(n), n, d1), n)} :
               d1 \in Draws(ZeroBoard(n), n)}]

\* (mutant) reset leaves the flag set.
ResetResult_done(g, seed, o) ==
    [board |-> o.board, done |-> TRUE,
     rng |-> [Reseed(g, seed) EXCEPT !.pos = @ + o.drawn], obs |-> o.board]

\* The engine and the observation returned after reset(seed), its spawns
\* having the outcome o.
ResetResult(g, seed, o) ==
    LET g0 == Reseed(g, seed)
    IN  [board |-> o.board, done |-> FALSE,
         rng |-> [g0 EXCEPT !.pos = @ + o.drawn], obs |-> o.board]

Reset ==
    /\ constructed
    /\ \E seed \in SeedInputs, o \in ResetOutcomes[board_size] :
          LET res == ResetResult(rng, seed, o)
          IN  /\ res.rng.pos <= 2 * MaxSpawns
              /\ board' = res.board
              /\ done' = res.done
              /\ rng' = res.rng
              /\ obs' = res.obs
    /\ op' = "reset"
    /\ err' = FALSE
    /\ was_done' = done
    /\ act' = 0
    /\ reward' = 0
    /\ terminated' = FALSE
    /\ moved' = FALSE
    /\ UNCHANGED <<constructed, board_size, line_vars, pair_vars,
                   caller_vars>>

\* ------------------------------------------------------------------- step

\* (mutant) a move that left the board as it was is given a penalty.
StepReward_penalty(old_board, new_board, move_reward) ==
    IF new_board = old_board THEN -1 ELSE move_reward

\* Lines 60-62: the reward of a move that left the board as it was is 0.
StepReward(old_board, new_board, move_reward) ==
    IF new_board = old_board THEN 0 ELSE move_reward

\* (mutant) no tile is ever spawned.
Spawns_never(old_board, new_board) == FALSE

\* (mutant) a tile is spawned after every move.
Spawns_always(old_board, new_board) == TRUE

\* Lines 65-66: a tile is spawned when the move changed the board.
Spawns(old_board, new_board) == new_board # old_board

\* (mutant) the board is left as the move left it, without a new tile.
StepResult_bare(b, n, g, action, d) ==
    LET m  == move(b, n, action)
        dn == ~can_move(m.board, n)
    IN  [board |-> m.board, done |-> dn, rng |-> g, obs |-> m.board,
         reward |-> StepReward(b, m.board, m.reward), terminated |-> dn,
         moved |-> Spawns(b, m.board)]

\* (mutant) the generator is drawn from on every step, spawn or not.
StepResult_draws(b, n, g, action, d) ==
    LET m  == move(b, n, action)
        sp == Spawns(b, m.board)
        b2 == IF sp THEN add_random_tile(m.board, n, d) ELSE m.board
        g2 == Advance(g, m.board, n)
        dn == ~can_move(b2, n)
    IN  [board |-> b2, done |-> dn, rng |-> g2, obs |-> b2,
         reward |-> StepReward(b, m.board, m.reward), terminated |-> dn,
         moved |-> sp]

\* The engine and the values returned after step(action) on an engine that
\* was not done, the variates of its spawn being d (lines 56-75).
StepResult(b, n, g, action, d) ==
    LET m  == move(b, n, action)
        sp == Spawns(b, m.board)
        b2 == IF sp THEN add_random_tile(m.board, n, d) ELSE m.board
        g2 == IF sp THEN Advance(g, m.board, n) ELSE g
        dn == ~can_move(b2, n)
    IN  [board |-> b2, done |-> dn, rng |-> g2, obs |-> b2,
         reward |-> StepReward(b, m.board, m.reward), terminated |-> dn,
         moved |-> sp]

\* (mutant) terminated and truncated are swapped in the early return.
DoneResult_flag(b, g) ==
    [board |-> b, done |-> TRUE, rng |-> g, obs |-> b, reward |-> 0,
     terminated |-> FALSE, moved |-> FALSE]

\* Lines 52-54: the values returned by step on an engine that was done.
DoneResult(b, g) ==
    [board |-> b, done |-> TRUE, rng |-> g, obs |-> b, reward |-> 0,
     terminated |-> TRUE, moved |-> FALSE]

\* The variates step(action) may draw on board b.
StepDraws(b, n, dn, action) ==
    IF dn THEN {[idx |-> 0, four |-> FALSE]}
    ELSE LET m == move(b, n, action)
         IN  IF Spawns(b, m.board) THEN Draws(m.board, n)
             ELSE {[idx |-> 0, four |-> FALSE]}

\* (mutant) only the lower end of the range is checked.
StepRaises_upper(action) == action < 0

\* Line 50: the assertion raises before anything is read or written.
StepRaises(action) == ~Contains(action)

InvalidStep ==
    /\ constructed
    /\ \E action \in ActionInputs :
          /\ StepRaises(action)
          /\ act' = action
    /\ op' = "step"
    /\ err' = TRUE
    /\ was_done' = done
    /\ moved' = FALSE
    /\ UNCHANGED <<constructed, board_size, board, done, rng, obs, reward,
                   terminated, line_vars, pair_vars,
                   caller_vars>>

Step ==
    /\ constructed
    /\ \E action \in ActionInputs :
          /\ ~StepRaises(action)
          /\ \E d \in StepDraws(board, board_size, done, action) :
                LET res == IF done THEN DoneResult(board, rng)
                           ELSE StepResult(board, board_size, rng, action, d)
                IN  /\ res.rng.pos <= 2 * MaxSpawns
                    /\ board' = res.board
                    /\ done' = res.done
                    /\ rng' = res.rng
                    /\ obs' = res.obs
                    /\ reward' = res.reward
                    /\ terminated' = res.terminated
                    /\ moved' = res.moved
          /\ act' = action
    /\ op' = "step"
    /\ err' = FALSE
    /\ was_done' = done
    /\ UNCHANGED <<constructed, board_size, line_vars, pair_vars,
                   caller_vars>>

\* ------------------------------------------------------ the specification

\* No variates are asked for: the placeholder of a spawn that does not draw.
NoDraw == [idx |-> 0, four |-> FALSE]

\* No variate was handed out yet.
EmptyOracle == [k \in {} |-> NoDraw]

\* The engine np.zeros((size, size)), RandomState(seed) of __init__, as a record.
Fresh(size, seed) ==
    [board |-> ZeroBoard(size), done |-> FALSE,
     rng |-> [seed |-> seed, pos |-> 0], obs |-> ZeroBoard(size),
     reward |-> 0, terminated |-> FALSE, moved |-> FALSE]

\* The caller has kept no array.
NoArray == [given |-> FALSE, scribbled |-> FALSE, alias |-> FALSE,
            val |-> ZeroBoard(0)]

\* The engine is on its own.
Alone ==
    /\ twin = Fresh(0, NoSeed)
    /\ oracle = EmptyOracle
    /\ phase = "free"
    /\ held = NoArray

Init ==
    /\ \E size \in SizeInputs, seed \in SeedInputs : Construct(size, seed)
    /\ line = <<>>
    /\ applied = FALSE
    /\ new_line = <<>>
    /\ gained = 0
    /\ Alone

Next == Reset \/ Step \/ InvalidStep

Spec == Init /\ [][Next]_vars

\* ------------------------------------- the line transform on its own

TileValues == {0} \cup {Pow2(e) : e \in 1..MaxExp}

Lines == UNION {[1..k -> TileValues] : k \in 1..MaxLineLen}

InitLine ==
    /\ Construct(0, NoSeed)
    /\ line \in Lines
    /\ applied = FALSE
    /\ new_line = <<>>
    /\ gained = 0
    /\ Alone

Transform ==
    /\ ~applied
    /\ applied' = TRUE
    /\ new_line' = compress_and_merge(line).line
    /\ gained' = compress_and_merge(line).gained
    /\ UNCHANGED <<line, engine_vars, pair_vars, caller_vars>>

NextLine == Transform

SpecLine == InitLine /\ [][NextLine]_vars

\* ------------------------------------------------ the move on its own

\* Board sizes and tiles of the boards handed to _move on its own.
MoveSizes == {2, 3}

MoveTiles == {0, 2, 4}

\* An engine whose board was set to any board of those tiles.
InitMove ==
    /\ constructed = TRUE
    /\ board_size \in MoveSizes
    /\ board \in [Cells(board_size) -> MoveTiles]
    /\ done = FALSE
    /\ rng = [seed |-> NoSeed, pos |-> 0]
    /\ op = "init"
    /\ act = 0
    /\ err = FALSE
    /\ obs = board
    /\ reward = 0
    /\ terminated = FALSE
    /\ was_done = FALSE
    /\ moved = FALSE
    /\ line = <<>>
    /\ applied = FALSE
    /\ new_line = <<>>
    /\ gained = 0
    /\ Alone

\* _move(action): obs is the board it leaves and reward the value it returns
\* (board keeps the board it was called on).
Move ==
    /\ ~applied
    /\ applied' = TRUE
    /\ \E action \in 0..(Discrete - 1) :
          /\ act' = action
          /\ obs' = move(board, board_size, action).board
          /\ reward' = move(board, board_size, action).reward
    /\ op' = "move"
    /\ UNCHANGED <<constructed, board_size, board, done, rng, err, terminated,
                   was_done, moved, line, new_line, gained, pair_vars,
                   caller_vars>>

NextMove == Move

SpecMove == InitMove /\ [][NextMove]_vars

\* ------------------------------------- two engines, one generator algorithm

\* RandomState is an algorithm: the variates of a seeded generator are a
\* function of its seed, of the variates drawn since and of the range asked
\* for. The oracle keeps the variates handed out, so that the same question
\* gets the same answer; an unseeded generator (OS entropy) answers anything.
\* The answers _add_random_tile can get on board b from generator g.
Ask(orc, g, b, n) ==
    LET len == Len(EmptyPositions(b, n))
        key == <<g.seed, g.pos, len>>
    IN  IF len = 0 THEN {[d |-> NoDraw, orc |-> orc]}
        ELSE IF g.seed = NoSeed THEN {[d |-> x, orc |-> orc] : x \in Draws(b, n)}
        ELSE IF key \in DOMAIN orc THEN {[d |-> orc[key], orc |-> orc]}
        ELSE {[d |-> x, orc |-> (key :> x) @@ orc] : x \in Draws(b, n)}

\* A generator never hands out again what it handed out: the answers to the
\* questions both generators g1 and g2 are past are forgotten.
Forget(orc, g1, g2) ==
    LET p == IF g1.pos <= g2.pos THEN g1.pos ELSE g2.pos
    IN  [k \in {j \in DOMAIN orc : j[2] >= p} |-> orc[k]]

\* (mutant) the board is left as the last episode left it.
ClearBoard_keep(b) == b

\* Line 42: self.board[:] = 0.
ClearBoard(b) == [p \in DOMAIN b |-> 0]

\* reset(seed) of the engine e (lines 40-47), its variates asked of orc.
ResetVia(orc, e, n, seed) ==
    LET g0 == Reseed(e.rng, seed)
        b0 == ClearBoard(e.board)
    IN  UNION {
          {LET b1 == add_random_tile(b0, n, a1.d)
               b2 == add_random_tile(b1, n, a2.d)
               g2 == Advance(Advance(g0, b0, n), b1, n)
           IN  [res |-> [board |-> b2, done |-> FALSE, rng |-> g2,
                         obs |-> b2, reward |-> 0, terminated |-> FALSE,
                         moved |-> FALSE],
                orc |-> a2.orc] :
             a2 \in Ask(a1.orc, Advance(g0, b0, n),
                        add_random_tile(b0, n, a1.d), n)} :
          a1 \in Ask(orc, g0, b0, n)}

\* step(action) of the engine e, the variates of its spawn asked of orc.
StepVia(orc, e, n, action) ==
    IF e.done THEN {[res |-> DoneResult(e.board, e.rng), orc |-> orc]}
    ELSE LET m == move(e.board, n, action)
         IN  IF Spawns(e.board, m.board)
             THEN {[res |-> StepResult(e.board, n, e.rng, action, a.d),
                    orc |-> a.orc] : a \in Ask(orc, e.rng, m.board, n)}
             ELSE {[res |-> StepResult(e.board, n, e.rng, action, NoDraw),
                    orc |-> orc]}

\* The first engine takes the result res of a call.
Takes(res) ==
    /\ board' = res.board
    /\ done' = res.done
    /\ rng' = res.rng
    /\ obs' = res.obs
    /\ reward' = res.reward
    /\ terminated' = res.terminated
    /\ moved' = res.moved

\* Two engines of one size: the first with any seed, the second unseeded.
InitPair ==
    /\ \E size \in {m \in SizeInputs : ~InitRaises(m)}, seed \in SeedInputs :
          /\ Construct(size, seed)
          /\ twin = Fresh(size, NoSeed)
    /\ oracle = EmptyOracle
    /\ phase = "free"
    /\ held = NoArray
    /\ line = <<>>
    /\ applied = FALSE
    /\ new_line = <<>>
    /\ gained = 0

\* The first engine is driven on its own, whatever its generator hands out.
FreeReset == phase = "free" /\ Reset

FreeStep == phase = "free" /\ Step

\* Both engines are reset with the same seed.
PairReset ==
    /\ constructed
    /\ phase = "free"
    /\ \E seed \in SeedInputs \ {NoSeed} :
          \E r1 \in ResetVia(oracle, [board |-> board, rng |-> rng],
                               board_size, seed) :
             \E r2 \in ResetVia(r1.orc, twin, board_size, seed) :
                /\ Takes(r1.res)
                /\ r1.res.rng.pos <= 2 * MaxPairSpawns
                /\ r2.res.rng.pos <= 2 * MaxPairSpawns
                /\ twin' = r2.res
                /\ oracle' = Forget(r2.orc, r1.res.rng, r2.res.rng)
    /\ phase' = "paired"
    /\ op' = "reset"
    /\ err' = FALSE
    /\ was_done' = done
    /\ act' = 0
    /\ UNCHANGED <<constructed, board_size, line_vars, caller_vars>>

\* Both engines are given the same action.
PairStep ==
    /\ constructed
    /\ phase \in {"paired", "restarted", "padded", "rejoined"}
    /\ \E action \in ActionInputs :
          /\ ~StepRaises(action)
          /\ \E r1 \in StepVia(oracle, [board |-> board, done |-> done,
                                         rng |-> rng], board_size, action) :
                \E r2 \in StepVia(r1.orc, twin, board_size, action) :
                   /\ Takes(r1.res)
                   /\ r1.res.rng.pos <= 2 * MaxPairSpawns
                   /\ r2.res.rng.pos <= 2 * MaxPairSpawns
                   /\ twin' = r2.res
                   /\ oracle' = Forget(r2.orc, r1.res.rng, r2.res.rng)
          /\ act' = action
    /\ phase' = IF phase = "padded" THEN "rejoined" ELSE phase
    /\ op' = "step"
    /\ err' = FALSE
    /\ was_done' = done
    /\ UNCHANGED <<constructed, board_size, line_vars, caller_vars>>

\* The first engine alone is given a step that leaves its board as it is: a
\* move that changes nothing, or any step once it is done.
Pad ==
    /\ constructed
    /\ phase \in {"paired", "padded", "rejoined"}
    /\ \E action \in ActionInputs :
          /\ ~StepRaises(action)
          /\ done \/ move(board, board_size, action).board = board
          /\ \E r1 \in StepVia(oracle, [board |-> board, done |-> done,
                                         rng |-> rng], board_size, action) :
                /\ Takes(r1.res)
                /\ r1.res.rng.pos <= 2 * MaxPairSpawns
                /\ oracle' = Forget(r1.orc, r1.res.rng, twin.rng)
          /\ act' = action
    /\ phase' = "padded"
    /\ op' = "step"
    /\ err' = FALSE
    /\ was_done' = done
    /\ UNCHANGED <<constructed, board_size, twin, line_vars, caller_vars>>

\* The two engines, alike so far, are given different actions: their episodes
\* part.
Diverge ==
    /\ constructed
    /\ phase = "paired"
    /\ \E a1, a2 \in ActionInputs :
          /\ ~StepRaises(a1) /\ ~StepRaises(a2)
          /\ a1 # a2
          /\ \E r1 \in StepVia(oracle, [board |-> board, done |-> done,
                                         rng |-> rng], board_size, a1) :
                \E r2 \in StepVia(r1.orc, twin, board_size, a2) :
                   /\ Takes(r1.res)
                   /\ r1.res.rng.pos <= 2 * MaxPairSpawns
                   /\ r2.res.rng.pos <= 2 * MaxPairSpawns
                   /\ twin' = r2.res
                   /\ oracle' = Forget(r2.orc, r1.res.rng, r2.res.rng)
          /\ act' = a1
    /\ phase' = "apart"
    /\ op' = "step"
    /\ err' = FALSE
    /\ was_done' = done
    /\ UNCHANGED <<constructed, board_size, line_vars, caller_vars>>

\* Both engines, their seeded generators in one state and their boards or
\* flags not alike, are reset without a seed.
PairRestart ==
    /\ constructed
    /\ phase = "apart"
    /\ rng = twin.rng /\ rng.seed # NoSeed
    /\ board # twin.board \/ done # twin.done
    /\ \E r1 \in ResetVia(oracle, [board |-> board, rng |-> rng],
                            board_size, NoSeed) :
          \E r2 \in ResetVia(r1.orc, twin, board_size, NoSeed) :
             /\ Takes(r1.res)
             /\ r1.res.rng.pos <= 2 * MaxPairSpawns
             /\ r2.res.rng.pos <= 2 * MaxPairSpawns
             /\ twin' = r2.res
             /\ oracle' = Forget(r2.orc, r1.res.rng, r2.res.rng)
    /\ phase' = "restarted"
    /\ op' = "reset"
    /\ err' = FALSE
    /\ was_done' = done
    /\ act' = 0
    /\ UNCHANGED <<constructed, board_size, line_vars, caller_vars>>

NextPair ==
    \/ FreeReset \/ FreeStep \/ PairReset \/ PairStep \/ Diverge
    \/ PairRestart \/ Pad

SpecPair == InitPair /\ [][NextPair]_vars

\* ------------------------------------- the arrays the caller is handed

\* (mutant) return self.board: the array returned is the engine's own.
Returned_own(b) == [alias |-> TRUE, val |-> b]

\* self.board.copy() (lines 47, 54, 73): a new array with the contents of b.
Returned(b) == [alias |-> FALSE, val |-> b]

\* What the caller reads in the array h when the engine's board is b.
Seen(h, b) == IF h.alias THEN b ELSE h.val

\* The caller keeps the array just returned if it has none, or lets it go.
Keeps(o) ==
    \/ held' = held
    \/ /\ ~held.given
       /\ held' = [given |-> TRUE, scribbled |-> FALSE,
                   alias |-> Returned(o).alias, val |-> Returned(o).val]

InitObs ==
    /\ \E size \in {m \in SizeInputs : ~InitRaises(m)} : Construct(size, NoSeed)
    /\ line = <<>>
    /\ applied = FALSE
    /\ new_line = <<>>
    /\ gained = 0
    /\ Alone

\* reset() without a seed, the caller being handed the array it returns.
ObsReset ==
    /\ constructed
    /\ \E o \in ResetOutcomes[board_size] :
          LET r == ResetResult(rng, NoSeed, o)
          IN  /\ Takes([board |-> r.board, done |-> r.done, rng |-> r.rng,
                        obs |-> r.obs, reward |-> 0, terminated |-> FALSE,
                        moved |-> FALSE])
              /\ r.rng.pos <= 2 * MaxObsSpawns
              /\ Keeps(r.obs)
    /\ op' = "reset"
    /\ err' = FALSE
    /\ was_done' = done
    /\ act' = 0
    /\ UNCHANGED <<constructed, board_size, line_vars, pair_vars>>

\* step(action), the caller being handed the array it returns.
ObsStep ==
    /\ constructed
    /\ \E action \in ActionInputs :
          /\ ~StepRaises(action)
          /\ \E d \in StepDraws(board, board_size, done, action) :
                LET res == IF done THEN DoneResult(board, rng)
                           ELSE StepResult(board, board_size, rng, action, d)
                IN  /\ Takes(res)
                    /\ res.rng.pos <= 2 * MaxObsSpawns
                    /\ Keeps(res.obs)
          /\ act' = action
    /\ op' = "step"
    /\ err' = FALSE
    /\ was_done' = done
    /\ UNCHANGED <<constructed, board_size, line_vars, pair_vars>>

\* The caller writes 1 into a cell of the array it kept: into the engine's
\* board when the array is the engine's own.
Scribble ==
    /\ held.given /\ ~held.scribbled
    /\ \E p \in Cells(board_size) :
          /\ held' = [held EXCEPT !.scribbled = TRUE, !.val[p] = 1]
          /\ board' = IF held.alias THEN [board EXCEPT ![p] = 1] ELSE board
    /\ op' = "scribble"
    /\ UNCHANGED <<constructed, board_size, done, rng, act, err, obs, reward,
                   terminated, was_done, moved, line_vars, pair_vars>>

NextObs == ObsReset \/ ObsStep \/ Scribble

SpecObs == InitObs /\ [][NextObs]_vars

\* ------------------------------------------- one episode played to its end

\* A 2x2 engine, the smallest on which tiles slide and merge.
InitGame ==
    /\ Construct(2, NoSeed)
    /\ line = <<>>
    /\ applied = FALSE
    /\ new_line = <<>>
    /\ gained = 0
    /\ Alone

\* The reset that opens the episode.
GameReset ==
    /\ op = "init"
    /\ Reset

\* The caller steps with an action that changes the board.
GameStep ==
    /\ constructed
    /\ op # "init"
    /\ ~done
    /\ \E action \in ActionInputs :
          /\ ~StepRaises(action)
          /\ move(board, board_size, action).board # board
          /\ \E d \in StepDraws(board, board_size, done, action) :
                LET res == StepResult(board, board_size, rng, action, d)
                IN  /\ res.rng.pos <= 2 * MaxGameSpawns
                    /\ Takes(res)
          /\ act' = action
    /\ op' = "step"
    /\ err' = FALSE
    /\ was_done' = done
    /\ UNCHANGED <<constructed, board_size, line_vars, pair_vars, caller_vars>>

NextGame == GameReset \/ GameStep

\* The guard of GameStep: the episode is open and some action changes the
\* board (lines 52, 57-60).  Every GameStep changes the board, so this is
\* ENABLED <<GameStep>>_vars.
GameStepEnabled ==
    /\ constructed
    /\ op # "init"
    /\ ~done
    /\ \E action \in ActionInputs :
          /\ ~StepRaises(action)
          /\ move(board, board_size, action).board # board
          /\ \E d \in StepDraws(board, board_size, done, action) :
                StepResult(board, board_size, rng, action, d).rng.pos
                    <= 2 * MaxGameSpawns

\* The caller goes on stepping as long as some action changes the board:
\* weak fairness of GameStep, WF_vars(GameStep), with its ENABLED written
\* out as the state predicate GameStepEnabled.
GameStepFair == []<>(~GameStepEnabled) \/ []<><<GameStep>>_vars

SpecGame == InitGame /\ [][NextGame]_vars /\ GameStepFair

\* ------------------------------------------------------------------------
\* One long episode on the default 4x4 board.  A play is a caller's actions
\* together with the draws of the generator (lines 89-96: the empty cell
\* chosen, and whether the tile is a 4): entry k of Play is
\* 32 * action + 2 * idx + (1 if the tile is a 4), idx counting the empty
\* cells in row-major order as np.argwhere lists them.  Every action of the
\* play changes the board, so every step spawns.
\* ------------------------------------------------------------------------

\* The play: 35,285 steps that end with a tile of 131072.
Play ==
  <<
    65, 107, 65, 65, 65, 65, 103, 7, 73, 73, 73, 73, 73, 71, 71, 71, 73, 1, 65, 65, 73, 7, 7, 65, 65, 65, 101, 5, 71, 69,
    69, 69, 69, 67, 67, 73, 17, 15, 5, 5, 7, 75, 77, 77, 79, 77, 84, 109, 81, 7, 71, 69, 71, 73, 113, 73, 78, 109, 19, 9,
    83, 80, 78, 105, 77, 9, 73, 113, 73, 79, 113, 17, 115, 7, 75, 7, 71, 71, 71, 69, 69, 69, 71, 69, 71, 73, 73, 115, 73, 81,
    115, 19, 9, 73, 79, 9, 73, 73, 73, 113, 73, 79, 113, 17, 115, 7, 73, 9, 73, 9, 73, 115, 73, 73, 73, 75, 73, 79, 77, 17,
    79, 9, 73, 113, 73, 79, 113, 17, 113, 9, 80, 78, 105, 77, 9, 75, 115, 75, 75, 75, 77, 75, 81, 115, 9, 84, 107, 79, 7, 71,
    69, 71, 73, 113, 73, 78, 109, 19, 9, 83, 80, 78, 105, 77, 9, 73, 113, 73, 79, 113, 17, 115, 7, 73, 9, 73, 9, 73, 115, 73,
    73, 73, 75, 73, 79, 77, 17, 79, 9, 73, 113, 73, 79, 113, 17, 113, 9, 80, 78, 105, 77, 9, 75, 115, 75, 75, 75, 77, 75, 81,
    115, 9, 73, 73, 73, 113, 73, 79, 113, 17, 115, 9, 83, 81, 77, 13, 16, 78, 105, 77, 9, 73, 75, 73, 79, 76, 16, 107, 107, 80,
    75, 80, 75, 115, 9, 83, 81, 76, 9, 112, 7, 74, 11, 7, 71, 74, 10, 15, 103, 71, 71, 71, 106, 71, 109, 5, 103, 76, 71, 71,
    73, 71, 71, 71, 74, 75, 107, 5, 79, 113, 7, 79, 9, 82, 107, 75, 80, 75, 79, 9, 79, 9, 83, 83, 115, 19, 9, 73, 79, 9,
    73, 73, 73, 113, 73, 79, 113, 17, 115, 7, 73, 9, 73, 9, 73, 115, 73, 73, 73, 75, 73, 79, 77, 17, 79, 9, 73, 113, 73, 79,
    113, 17, 113, 9, 80, 78, 105, 77, 9, 75, 115, 75, 75, 75, 77, 75, 81, 115, 9, 73, 73, 73, 113, 73, 79, 113, 17, 115, 9, 83,
    81, 77, 13, 16, 78, 105, 77, 9, 73, 75, 73, 79, 76, 16, 107, 107, 80, 75, 80, 75, 115, 9, 83, 81, 76, 9, 112, 7, 74, 11,
    7, 71, 74, 10, 15, 103, 71, 71, 71, 106, 71, 109, 5, 103, 76, 71, 71, 73, 71, 71, 71, 74, 75, 107, 5, 79, 113, 7, 79, 9,
    80, 78, 105, 77, 9, 73, 79, 77, 17, 79, 9, 73, 113, 73, 79, 113, 17, 113, 9, 80, 78, 105, 77, 9, 75, 115, 75, 75, 75, 83,
    115, 9, 83, 81, 76, 9, 112, 7, 74, 11, 7, 71, 74, 10, 15, 103, 71, 71, 71, 106, 71, 109, 5, 103, 76, 71, 71, 3, 71, 111,
    76, 71, 75, 7, 71, 111, 71, 77, 111, 15, 111, 7, 78, 76, 103, 75, 7, 71, 111, 71, 76, 76, 107, 7, 76, 74, 73, 5, 69, 107,
    11, 77, 77, 109, 5, 113, 17, 71, 71, 71, 73, 71, 77, 111, 15, 111, 7, 78, 76, 103, 75, 7, 71, 111, 71, 76, 76, 107, 7, 76,
    74, 73, 5, 69, 107, 11, 77, 77, 109, 5, 81, 81, 113, 7, 78, 9, 109, 109, 109, 109, 109, 108, 108, 81, 7, 71, 69, 71, 73, 113,
    73, 78, 109, 19, 9, 83, 80, 78, 105, 77, 9, 73, 113, 73, 79, 113, 17, 115, 7, 73, 9, 73, 9, 73, 115, 73, 73, 73, 75, 73,
    79, 77, 17, 79, 9, 73, 113, 73, 79, 113, 17, 113, 9, 80, 78, 105, 77, 9, 75, 115, 75, 75, 75, 77, 75, 81, 115, 9, 73, 73,
    73, 113, 73, 79, 113, 17, 115, 9, 83, 81, 77, 13, 16, 78, 105, 77, 9, 73, 75, 73, 79, 76, 16, 107, 107, 80, 75, 80, 75, 115,
    9, 83, 81, 76, 9, 112, 7, 74, 11, 7, 71, 74, 10, 15, 103, 71, 71, 71, 106, 71, 109, 5, 103, 76, 71, 71, 73, 71, 71, 71,
    74, 75, 107, 5, 79, 113, 7, 79, 9, 80, 78, 105, 77, 9, 73, 79, 77, 17, 79, 9, 73, 113, 73, 79, 113, 17, 113, 9, 80, 78,
    105, 77, 9, 75, 115, 75, 75, 75, 83, 115, 9, 83, 81, 76, 9, 112, 7, 74, 11, 7, 71, 74, 10, 15, 103, 71, 71, 71, 106, 71,
    109, 5, 103, 76, 71, 71, 3, 71, 111, 76, 71, 75, 7, 71, 111, 71, 77, 111, 15, 111, 7, 78, 76, 103, 75, 7, 71, 111, 71, 76,
    76, 107, 7, 76, 74, 73, 5, 69, 107, 11, 77, 77, 109, 5, 113, 17, 71, 71, 71, 73, 71, 77, 111, 15, 111, 7, 78, 76, 103, 75,
    7, 71, 111, 71, 76, 76, 107, 7, 76, 74, 73, 5, 69, 107, 11, 77, 77, 109, 5, 81, 81, 113, 7, 79, 9, 82, 107, 75, 75, 77,
    75, 75, 78, 75, 79, 9, 79, 9, 73, 73, 73, 113, 73, 79, 113, 17, 113, 9, 80, 78, 105, 77, 9, 75, 115, 75, 75, 75, 83, 115,
    9, 83, 81, 76, 9, 112, 7, 74, 11, 7, 71, 74, 10, 15, 103, 71, 71, 71, 106, 71, 109, 5, 103, 76, 71, 71, 3, 71, 111, 76,
    71, 75, 7, 71, 111, 71, 77, 111, 15, 111, 7, 78, 76, 103, 75, 7, 71, 111, 71, 76, 76, 107, 7, 76, 74, 73, 5, 69, 107, 11,
    77, 77, 109, 5, 113, 17, 71, 71, 71, 73, 71, 77, 111, 15, 111, 7, 78, 76, 103, 75, 7, 71, 111, 71, 76, 76, 107, 7, 76, 74,
    73, 5, 69, 107, 11, 77, 77, 109, 5, 81, 81, 77, 7, 71, 111, 71, 77, 111, 15, 111, 7, 78, 76, 103, 75, 7, 71, 111, 71, 76,
    76, 107, 7, 76, 74, 73, 5, 69, 107, 11, 77, 77, 109, 5, 81, 79, 75, 14, 78, 107, 7, 76, 74, 73, 5, 69, 107, 11, 77, 77,
    109, 5, 79, 77, 77, 73, 5, 69, 107, 11, 77, 75, 107, 107, 5, 77, 73, 13, 77, 75, 107, 107, 5, 111, 15, 7, 78, 76, 103, 75,
    15, 113, 7, 71, 71, 71, 111, 71, 76, 76, 107, 7, 76, 74, 73, 5, 69, 107, 11, 77, 77, 109, 5, 81, 79, 75, 14, 78, 107, 7,
    76, 74, 73, 5, 69, 107, 11, 77, 77, 109, 5, 79, 77, 77, 73, 5, 69, 107, 11, 77, 75, 107, 107, 5, 77, 73, 13, 77, 75, 107,
    107, 5, 79, 113, 7, 79, 9, 82, 107, 75, 80, 75, 79, 9, 79, 9, 83, 83, 115, 19, 9, 73, 79, 9, 73, 73, 73, 113, 73, 79,
    113, 17, 115, 7, 73, 9, 73, 9, 73, 115, 73, 73, 73, 75, 73, 79, 77, 17, 79, 9, 73, 113, 73, 79, 113, 17, 113, 9, 80, 78,
    105, 77, 9, 75, 115, 75, 75, 75, 77, 75, 81, 115, 9, 73, 73, 73, 113, 73, 79, 113, 17, 115, 9, 83, 81, 77, 13, 16, 78, 105,
    77, 9, 73, 75, 73, 79, 76, 16, 107, 107, 80, 75, 80, 75, 115, 9, 83, 81, 76, 9, 112, 7, 74, 11, 7, 71, 74, 10, 15, 103,
    71, 71, 71, 106, 71, 109, 5, 103, 76, 71, 71, 73, 71, 71, 71, 74, 75, 107, 5, 79, 113, 7, 79, 9, 80, 78, 105, 77, 9, 73,
    79, 77, 17, 79, 9, 73, 113, 73, 79, 113, 17, 113, 9, 80, 78, 105, 77, 9, 75, 115, 75, 75, 75, 83, 115, 9, 83, 81, 76, 9,
    112, 7, 74, 11, 7, 71, 74, 10, 15, 103, 71, 71, 71, 106, 71, 109, 5, 103, 76, 71, 71, 3, 71, 111, 76, 71, 75, 7, 71, 111,
    71, 77, 111, 15, 111, 7, 78, 76, 103, 75, 7, 71, 111, 71, 76, 76, 107, 7, 76, 74, 73, 5, 69, 107, 11, 77, 77, 109, 5, 113,
    17, 71, 71, 71, 73, 71, 77, 111, 15, 111, 7, 78, 76, 103, 75, 7, 71, 111, 71, 76, 76, 107, 7, 76, 74, 73, 5, 69, 107, 11,
    77, 77, 109, 5, 81, 81, 113, 7, 79, 9, 82, 107, 75, 75, 77, 75, 75, 78, 75, 79, 9, 79, 9, 73, 73, 73, 113, 73, 79, 113,
    17, 113, 9, 80, 78, 105, 77, 9, 75, 115, 75, 75, 75, 83, 115, 9, 83, 81, 76, 9, 112, 7, 74, 11, 7, 71, 74, 10, 15, 103,
    71, 71, 71, 106, 71, 109, 5, 103, 76, 71, 71, 3, 71, 111, 76, 71, 75, 7, 71, 111, 71, 77, 111, 15, 111, 7, 78, 76, 103, 75,
    7, 71, 111, 71, 76, 76, 107, 7, 76, 74, 73, 5, 69, 107, 11, 77, 77, 109, 5, 113, 17, 71, 71, 71, 73, 71, 77, 111, 15, 111,
    7, 78, 76, 103, 75, 7, 71, 111, 71, 76, 76, 107, 7, 76, 74, 73, 5, 69, 107, 11, 77, 77, 109, 5, 81, 81, 77, 7, 71, 111,
    71, 77, 111, 15, 111, 7, 78, 76, 103, 75, 7, 71, 111, 71, 76, 76, 107, 7, 76, 74, 73, 5, 69, 107, 11, 77, 77, 109, 5, 81,
    79, 75, 14, 78, 107, 7, 76, 74, 73, 5, 69, 107, 11, 77, 77, 109, 5, 79, 77, 77, 73, 5, 69, 107, 11, 77, 75, 107, 107, 5,
    77, 73, 13, 77, 75, 107, 107, 5, 111, 15, 7, 78, 76, 103, 75, 15, 113, 7, 71, 71, 71, 111, 71, 76, 76, 107, 7, 76, 74, 73,
    5, 69, 107, 11, 77, 77, 109, 5, 81, 79, 75, 14, 78, 107, 7, 76, 74, 73, 5, 69, 107, 11, 77, 77, 109, 5, 79, 77, 77, 73,
    5, 69, 107, 11, 77, 75, 107, 107, 5, 77, 73, 13, 77, 75, 107, 107, 5, 79, 113, 7, 79, 9, 80, 78, 105, 77, 9, 73, 79, 77,
    17, 79, 9, 73, 113, 73, 79, 113, 17, 113, 9, 80, 78, 105, 77, 9, 75, 115, 75, 75, 75, 83, 115, 9, 83, 81, 76, 9, 112, 7,
    74, 11, 7, 71, 74, 10, 15, 103, 71, 71, 71, 106, 71, 109, 5, 103, 76, 71, 71, 3, 71, 111, 76, 71, 75, 7, 71, 111, 71, 77,
    111, 15, 111, 7, 78, 76, 103, 75, 7, 71, 111, 71, 76, 76, 107, 7, 76, 74, 73, 5, 69, 107, 11, 77, 77, 109, 5, 113, 17, 71,
    71, 71, 73, 71, 77, 111, 15, 111, 7, 78, 76, 103, 75, 7, 71, 111, 71, 76, 76, 107, 7, 76, 74, 73, 5, 69, 107, 11, 77, 77,
    109, 5, 81, 81, 77, 7, 71, 111, 71, 77, 111, 15, 111, 7, 78, 76, 103, 75, 7, 71, 111, 71, 76, 76, 107, 7, 76, 74, 73, 5,
    69, 107, 11, 77, 77, 109, 5, 81, 79, 75, 14, 78, 107, 7, 76, 74, 73, 5, 69, 107, 11, 77, 77, 109, 5, 79, 77, 77, 73, 5,
    69, 107, 11, 77, 75, 107, 107, 5, 77, 73, 13, 77, 75, 107, 107, 5, 111, 15, 7, 78, 76, 103, 75, 15, 113, 7, 71, 71, 71, 111,
    71, 76, 76, 107, 7, 76, 74, 73, 5, 69, 107, 11, 77, 77, 109, 5, 81, 79, 75, 14, 78, 107, 7, 76, 74, 73, 5, 69, 107, 11,
    77, 77, 109, 5, 79, 77, 77, 73, 5, 69, 107, 11, 77, 75, 107, 107, 5, 77, 73, 13, 77, 75, 107, 107, 5, 79, 77, 7, 71, 111,
    71, 76, 76, 107, 17, 71, 71, 71, 73, 71, 76, 76, 107, 7, 76, 74, 73, 5, 69, 107, 11, 77, 77, 109, 5, 81, 79, 75, 14, 78,
    107, 7, 76, 74, 73, 5, 69, 107, 11, 77, 77, 109, 5, 79, 77, 77, 73, 5, 69, 107, 11, 77, 75, 107, 107, 5, 77, 73, 13, 77,
    75, 107, 107, 5, 79, 75, 14, 103, 74, 103, 77, 73, 5, 69, 107, 11, 77, 75, 107, 107, 9, 5, 74, 72, 71, 9, 75, 75, 73, 5,
    69, 107, 10, 71, 69, 72, 73, 73, 105, 7, 107, 107, 105, 105, 104, 104, 107, 9, 5, 74, 72, 70, 8, 107, 5, 75, 70, 8, 107, 5,
    75, 73, 71, 9, 73, 73, 71, 9, 107, 109, 13, 111, 15, 7, 78, 76, 103, 75, 7, 71, 111, 71, 76, 76, 107, 17, 71, 71, 71, 73,
    71, 76, 76, 107, 7, 76, 74, 73, 5, 69, 107, 11, 77, 77, 109, 5, 81, 79, 75, 14, 78, 107, 7, 76, 74, 73, 5, 69, 107, 11,
    77, 77, 109, 5, 79, 77, 77, 73, 5, 69, 107, 11, 77, 75, 107, 107, 5, 77, 73, 13, 77, 75, 107, 107, 5, 79, 75, 14, 103, 74,
    103, 77, 73, 5, 69, 107, 11, 77, 75, 107, 107, 9, 5, 74, 72, 71, 9, 75, 75, 73, 5, 69, 107, 10, 71, 69, 72, 73, 73, 105,
    7, 107, 107, 105, 105, 104, 104, 107, 9, 5, 74, 72, 70, 8, 107, 5, 75, 70, 8, 107, 5, 75, 73, 71, 9, 73, 73, 71, 9, 107,
    109, 5, 103, 81, 73, 73, 73, 111, 5, 73, 75, 84, 107, 79, 7, 71, 69, 71, 73, 113, 73, 78, 109, 19, 9, 83, 80, 78, 105, 77,
    9, 73, 113, 73, 79, 113, 17, 115, 7, 73, 9, 73, 9, 73, 115, 73, 73, 73, 75, 73, 79, 77, 17, 79, 9, 73, 113, 73, 79, 113,
    17, 113, 9, 80, 78, 105, 77, 9, 75, 115, 75, 75, 75, 77, 75, 81, 115, 9, 73, 73, 73, 113, 73, 79, 113, 17, 115, 9, 83, 81,
    77, 13, 16, 78, 105, 77, 9, 73, 75, 73, 79, 76, 16, 107, 107, 80, 75, 80, 75, 115, 9, 83, 81, 76, 9, 112, 7, 74, 11, 7,
    71, 74, 10, 15, 103, 71, 71, 71, 106, 71, 109, 5, 103, 76, 71, 71, 73, 71, 71, 71, 74, 75, 107, 5, 79, 113, 7, 79, 9, 80,
    78, 105, 77, 9, 73, 79, 77, 17, 79, 9, 73, 113, 73, 79, 113, 17, 113, 9, 80, 78, 105, 77, 9, 75, 115, 75, 75, 75, 83, 115,
    9, 83, 81, 76, 9, 112, 7, 74, 11, 7, 71, 74, 10, 15, 103, 71, 71, 71, 106, 71, 109, 5, 103, 76, 71, 71, 3, 71, 111, 76,
    71, 75, 7, 71, 111, 71, 77, 111, 15, 111, 7, 78, 76, 103, 75, 7, 71, 111, 71, 76, 76, 107, 7, 76, 74, 73, 5, 69, 107, 11,
    77, 77, 109, 5, 113, 17, 71, 71, 71, 73, 71, 77, 111, 15, 111, 7, 78, 76, 103, 75, 7, 71, 111, 71, 76, 76, 107, 7, 76, 74,
    73, 5, 69, 107, 11, 77, 77, 109, 5, 81, 81, 113, 7, 79, 9, 82, 107, 75, 75, 77, 75, 75, 78, 75, 79, 9, 79, 9, 73, 73,
    73, 113, 73, 79, 113, 17, 113, 9, 80, 78, 105, 77, 9, 75, 115, 75, 75, 75, 83, 115, 9, 83, 81, 76, 9, 112, 7, 74, 11, 7,
    71, 74, 10, 15, 103, 71, 71, 71, 106, 71, 109, 5, 103, 76, 71, 71, 3, 71, 111, 76, 71, 75, 7, 71, 111, 71, 77, 111, 15, 111,
    7, 78, 76, 103, 75, 7, 71, 111, 71, 76, 76, 107, 7, 76, 74, 73, 5, 69, 107, 11, 77, 77, 109, 5, 113, 17, 71, 71, 71, 73,
    71, 77, 111, 15, 111, 7, 78, 76, 103, 75, 7, 71, 111, 71, 76, 76, 107, 7, 76, 74, 73, 5, 69, 107, 11, 77, 77, 109, 5, 81,
    81, 77, 7, 71, 111, 71, 77, 111, 15, 111, 7, 78, 76, 103, 75, 7, 71, 111, 71, 76, 76, 107, 7, 76, 74, 73, 5, 69, 107, 11,
    77, 77, 109, 5, 81, 79, 75, 14, 78, 107, 7, 76, 74, 73, 5, 69, 107, 11, 77, 77, 109, 5, 79, 77, 77, 73, 5, 69, 107, 11,
    77, 75, 107, 107, 5, 77, 73, 13, 77, 75, 107, 107, 5, 111, 15, 7, 78, 76, 103, 75, 15, 113, 7, 71, 71, 71, 111, 71, 76, 76,
    107, 7, 76, 74, 73, 5, 69, 107, 11, 77, 77, 109, 5, 81, 79, 75, 14, 78, 107, 7, 76, 74, 73, 5, 69, 107, 11, 77, 77, 109,
    5, 79, 77, 77, 73, 5, 69, 107, 11, 77, 75, 107, 107, 5, 77, 73, 13, 77, 75, 107, 107, 5, 79, 113, 7, 79, 9, 80, 78, 105,
    77, 9, 73, 79, 77, 17, 79, 9, 73, 113, 73, 79, 113, 17, 113, 9, 80, 78, 105, 77, 9, 75, 115, 75, 75, 75, 83, 115, 9, 83,
    81, 76, 9, 112, 7, 74, 11, 7, 71, 74, 10, 15, 103, 71, 71, 71, 106, 71, 109, 5, 103, 76, 71, 71, 3, 71, 111, 76, 71, 75,
    7, 71, 111, 71, 77, 111, 15, 111, 7, 78, 76, 103, 75, 7, 71, 111, 71, 76, 76, 107, 7, 76, 74, 73, 5, 69, 107, 11, 77, 77,
    109, 5, 113, 17, 71, 71, 71, 73, 71, 77, 111, 15, 111, 7, 78, 76, 103, 75, 7, 71, 111, 71, 76, 76, 107, 7, 76, 74, 73, 5,
    69, 107, 11, 77, 77, 109, 5, 81, 81, 77, 7, 71, 111, 71, 77, 111, 15, 111, 7, 78, 76, 103, 75, 7, 71, 111, 71, 76, 76, 107,
    7, 76, 74, 73, 5, 69, 107, 11, 77, 77, 109, 5, 81, 79, 75, 14, 78, 107, 7, 76, 74, 73, 5, 69, 107, 11, 77, 77, 109, 5,
    79, 77, 77, 73, 5, 69, 107, 11, 77, 75, 107, 107, 5, 77, 73, 13, 77, 75, 107, 107, 5, 111, 15, 7, 78, 76, 103, 75, 15, 113,
    7, 71, 71, 71, 111, 71, 76, 76, 107, 7, 76, 74, 73, 5, 69, 107, 11, 77, 77, 109, 5, 81, 79, 75, 14, 78, 107, 7, 76, 74,
    73, 5, 69, 107, 11, 77, 77, 109, 5, 79, 77, 77, 73, 5, 69, 107, 11, 77, 75, 107, 107, 5, 77, 73, 13, 77, 75, 107, 107, 5,
    79, 77, 7, 71, 111, 71, 76, 76, 107, 17, 71, 71, 71, 73, 71, 76, 76, 107, 7, 76, 74, 73, 5, 69, 107, 11, 77, 77, 109, 5,
    81, 79, 75, 14, 78, 107, 7, 76, 74, 73, 5, 69, 107, 11, 77, 77, 109, 5, 79, 77, 77, 73, 5, 69, 107, 11, 77, 75, 107, 107,
    5, 77, 73, 13, 77, 75, 107, 107, 5, 79, 75, 14, 103, 74, 103, 77, 73, 5, 69, 107, 11, 77, 75, 107, 107, 9, 5, 74, 72, 71,
    9, 75, 75, 73, 5, 69, 107, 10, 71, 69, 72, 73, 73, 105, 7, 107, 107, 105, 105, 104, 104, 107, 9, 5, 74, 72, 70, 8, 107, 5,
    75, 70, 8, 107, 5, 75, 73, 71, 9, 73, 73, 71, 9, 107, 109, 13, 111, 15, 7, 78, 76, 103, 75, 7, 71, 111, 71, 76, 76, 107,
    17, 71, 71, 71, 73, 71, 76, 76, 107, 7, 76, 74, 73, 5, 69, 107, 11, 77, 77, 109, 5, 81, 79, 75, 14, 78, 107, 7, 76, 74,
    73, 5, 69, 107, 11, 77, 77, 109, 5, 79, 77, 77, 73, 5, 69, 107, 11, 77, 75, 107, 107, 5, 77, 73, 13, 77, 75, 107, 107, 5,
    79, 75, 14, 103, 74, 103, 77, 73, 5, 69, 107, 11, 77, 75, 107, 107, 9, 5, 74, 72, 71, 9, 75, 75, 73, 5, 69, 107, 10, 71,
    69, 72, 73, 73, 105, 7, 107, 107, 105, 105, 104, 104, 107, 9, 5, 74, 72, 70, 8, 107, 5, 75, 70, 8, 107, 5, 75, 73, 71, 9,
    73, 73, 71, 9, 107, 109, 5, 103, 81, 73, 73, 73, 111, 5, 73, 115, 73, 73, 73, 75, 73, 79, 113, 17, 115, 9, 83, 81, 77, 13,
    16, 78, 105, 77, 9, 73, 75, 73, 79, 76, 16, 107, 107, 80, 75, 80, 75, 115, 9, 83, 81, 76, 9, 112, 7, 74, 11, 7, 71, 74,
    10, 15, 103, 71, 71, 71, 106, 71, 109, 5, 103, 76, 71, 71, 3, 71, 111, 76, 71, 75, 7, 71, 111, 71, 77, 111, 15, 111, 7, 78,
    76, 103, 75, 7, 71, 111, 71, 76, 76, 107, 7, 76, 74, 73, 5, 69, 107, 11, 77, 77, 109, 5, 113, 17, 71, 71, 71, 73, 71, 77,
    111, 15, 111, 7, 78, 76, 103, 75, 7, 71, 111, 71, 76, 76, 107, 7, 76, 74, 73, 5, 69, 107, 11, 77, 77, 109, 5, 81, 81, 77,
    7, 71, 111, 71, 77, 111, 15, 111, 7, 78, 76, 103, 75, 7, 71, 111, 71, 76, 76, 107, 7, 76, 74, 73, 5, 69, 107, 11, 77, 77,
    109, 5, 81, 79, 75, 14, 78, 107, 7, 76, 74, 73, 5, 69, 107, 11, 77, 77, 109, 5, 79, 77, 77, 73, 5, 69, 107, 11, 77, 75,
    107, 107, 5, 77, 73, 13, 77, 75, 107, 107, 5, 111, 15, 7, 78, 76, 103, 75, 15, 113, 7, 71, 71, 71, 111, 71, 76, 76, 107, 7,
    76, 74, 73, 5, 69, 107, 11, 77, 77, 109, 5, 81, 79, 75, 14, 78, 107, 7, 76, 74, 73, 5, 69, 107, 11, 77, 77, 109, 5, 79,
    77, 77, 73, 5, 69, 107, 11, 77, 75, 107, 107, 5, 77, 73, 13, 77, 75, 107, 107, 5, 79, 77, 7, 71, 111, 71, 76, 76, 107, 17,
    71, 71, 71, 73, 71, 76, 76, 107, 7, 76, 74, 73, 5, 69, 107, 11, 77, 77, 109, 5, 81, 79, 75, 14, 78, 107, 7, 76, 74, 73,
    5, 69, 107, 11, 77, 77, 109, 5, 79, 77, 77, 73, 5, 69, 107, 11, 77, 75, 107, 107, 5, 77, 73, 13, 77, 75, 107, 107, 5, 79,
    75, 14, 103, 74, 103, 77, 73, 5, 69, 107, 11, 77, 75, 107, 107, 9, 5, 74, 72, 71, 9, 75, 75, 73, 5, 69, 107, 10, 71, 69,
    72, 73, 73, 105, 7, 107, 107, 105, 105, 104, 104, 107, 9, 5, 74, 72, 70, 8, 107, 5, 75, 70, 8, 107, 5, 75, 73, 71, 9, 73,
    73, 71, 9, 107, 109, 13, 111, 15, 7, 78, 76, 103, 75, 7, 71, 111, 71, 76, 76, 107, 17, 71, 71, 71, 73, 71, 76, 76, 107, 7,
    76, 74, 73, 5, 69, 107, 11, 77, 77, 109, 5, 81, 79, 75, 14, 78, 107, 7, 76, 74, 73, 5, 69, 107, 11, 77, 77, 109, 5, 79,
    77, 77, 73, 5, 69, 107, 11, 77, 75, 107, 107, 5, 77, 73, 13, 77, 75, 107, 107, 5, 79, 75, 14, 103, 74, 103, 77, 73, 5, 69,
    107, 11, 77, 75, 107, 107, 9, 5, 74, 72, 71, 9, 75, 75, 73, 5, 69, 107, 10, 71, 69, 72, 73, 73, 105, 7, 107, 107, 105, 105,
    104, 104, 107, 9, 5, 74, 72, 70, 8, 107, 5, 75, 70, 8, 107, 5, 75, 73, 71, 9, 73, 73, 71, 9, 107, 109, 5, 103, 81, 73,
    73, 73, 111, 5, 71, 113, 71, 71, 71, 73, 71, 77, 111, 15, 113, 7, 81, 79, 75, 11, 14, 76, 103, 75, 7, 71, 3, 71, 113, 71,
    75, 7, 71, 71, 73, 71, 77, 111, 15, 111, 7, 78, 76, 103, 75, 7, 71, 111, 71, 76, 76, 107, 7, 76, 74, 73, 5, 69, 107, 11,
    77, 77, 109, 5, 81, 81, 77, 7, 71, 111, 71, 77, 111, 15, 111, 7, 78, 76, 103, 75, 7, 71, 111, 71, 76, 76, 107, 7, 76, 74,
    73, 5, 69, 107, 11, 77, 77, 109, 5, 81, 79, 75, 14, 78, 107, 7, 76, 74, 73, 5, 69, 107, 11, 77, 77, 109, 5, 79, 77, 77,
    73, 5, 69, 107, 11, 77, 75, 107, 107, 5, 77, 73, 13, 77, 75, 107, 107, 5, 79, 77, 7, 71, 111, 71, 76, 76, 107, 17, 71, 71,
    71, 73, 71, 76, 76, 107, 7, 76, 74, 73, 5, 69, 107, 11, 77, 77, 109, 5, 81, 79, 75, 14, 78, 107, 7, 76, 74, 73, 5, 69,
    107, 11, 77, 77, 109, 5, 79, 77, 77, 73, 5, 69, 107, 11, 77, 75, 107, 107, 5, 77, 73, 13, 77, 75, 107, 107, 5, 79, 75, 14,
    103, 74, 103, 77, 73, 5, 69, 107, 11, 77, 75, 107, 107, 9, 5, 74, 72, 71, 9, 75, 75, 73, 5, 69, 107, 10, 71, 69, 72, 73,
    73, 105, 7, 107, 107, 105, 105, 104, 104, 107, 9, 5, 74, 72, 70, 8, 107, 5, 75, 70, 8, 107, 5, 75, 73, 71, 9, 73, 73, 71,
    9, 107, 109, 5, 103, 81, 73, 73, 81, 113, 7, 81, 79, 75, 7, 71, 71, 109, 5, 78, 76, 103, 75, 7, 71, 71, 109, 5, 76, 74,
    101, 77, 73, 5, 69, 107, 5, 78, 76, 103, 75, 7, 71, 71, 109, 5, 76, 74, 101, 77, 73, 5, 69, 107, 5, 76, 74, 101, 77, 73,
    5, 69, 107, 11, 77, 75, 107, 107, 5, 77, 73, 12, 74, 107, 5, 75, 73, 71, 9, 75, 75, 75, 73, 72, 72, 73, 9, 7, 71, 71,
    71, 77, 109, 5, 76, 74, 101, 73, 13, 77, 75, 75, 73, 5, 69, 107, 5, 76, 74, 101, 77, 73, 5, 69, 107, 11, 77, 75, 107, 107,
    5, 77, 73, 12, 74, 107, 5, 75, 73, 71, 9, 75, 75, 75, 73, 72, 72, 73, 5, 69, 107, 5, 78, 76, 103, 75, 7, 71, 71, 109,
    5, 76, 74, 101, 77, 73, 5, 69, 107, 5, 76, 74, 101, 77, 73, 5, 69, 107, 11, 77, 75, 107, 107, 5, 77, 73, 12, 74, 107, 5,
    75, 73, 71, 9, 75, 75, 75, 73, 72, 72, 73, 9, 7, 69, 69, 69, 75, 107, 10, 71, 69, 72, 73, 73, 105, 7, 105, 105, 9, 75,
    77, 77, 77, 75, 75, 75, 75, 5, 69, 69, 77, 75, 107, 10, 69, 69, 71, 69, 69, 69, 72, 73, 73, 105, 7, 107, 107, 105, 105, 104,
    104, 107, 5, 77, 73, 12, 74, 107, 5, 75, 70, 8, 107, 5, 75, 73, 71, 9, 73, 70, 8, 107, 5, 75, 73, 71, 9, 73, 73, 71,
    9, 73, 73, 73, 71, 71, 71, 71, 9, 75, 77, 77, 75, 75, 75, 75, 5, 71, 73, 81, 79, 111, 4, 82, 107, 75, 1, 71, 69, 73,
    7, 5, 7, 3, 71, 113, 71, 111, 15, 7, 78, 76, 103, 75, 7, 3, 69, 69, 111, 69, 75, 9, 9, 9, 11, 111, 7, 80, 78, 105,
    77, 9, 75, 115, 75, 75, 75, 83, 115, 9, 83, 81, 77, 9, 73, 75, 73, 79, 77, 17, 115, 9, 79, 9, 82, 107, 75, 75, 77, 75,
    75, 78, 75, 79, 9, 79, 9, 73, 73, 73, 113, 73, 79, 113, 17, 113, 9, 80, 78, 105, 77, 9, 75, 115, 75, 75, 75, 83, 115, 9,
    83, 81, 76, 9, 112, 7, 74, 11, 7, 71, 74, 10, 15, 103, 71, 71, 71, 106, 71, 109, 5, 103, 76, 71, 71, 73, 71, 71, 71, 74,
    75, 107, 5, 79, 113, 7, 79, 9, 80, 78, 105, 77, 9, 73, 79, 77, 17, 79, 9, 73, 113, 73, 79, 113, 17, 113, 9, 80, 78, 105,
    77, 9, 75, 115, 75, 75, 75, 83, 115, 9, 83, 81, 76, 9, 112, 7, 74, 11, 7, 71, 74, 10, 15, 103, 71, 71, 71, 106, 71, 109,
    5, 103, 76, 71, 71, 3, 71, 111, 76, 71, 75, 7, 71, 111, 71, 77, 111, 15, 111, 7, 78, 76, 103, 75, 7, 71, 111, 71, 76, 76,
    107, 7, 76, 74, 73, 5, 69, 107, 11, 77, 77, 109, 5, 113, 17, 71, 71, 71, 73, 71, 77, 111, 15, 111, 7, 78, 76, 103, 75, 7,
    71, 111, 71, 76, 76, 107, 7, 76, 74, 73, 5, 69, 107, 11, 77, 77, 109, 5, 81, 81, 113, 7, 79, 9, 82, 107, 75, 75, 77, 75,
    75, 78, 75, 79, 9, 79, 9, 73, 73, 73, 113, 73, 79, 113, 17, 113, 9, 80, 78, 105, 77, 9, 75, 115, 75, 75, 75, 83, 115, 9,
    83, 81, 76, 9, 112, 7, 74, 11, 7, 71, 74, 10, 15, 103, 71, 71, 71, 106, 71, 109, 5, 103, 76, 71, 71, 3, 71, 111, 76, 71,
    75, 7, 71, 111, 71, 77, 111, 15, 111, 7, 78, 76, 103, 75, 7, 71, 111, 71, 76, 76, 107, 7, 76, 74, 73, 5, 69, 107, 11, 77,
    77, 109, 5, 113, 17, 71, 71, 71, 73, 71, 77, 111, 15, 111, 7, 78, 76, 103, 75, 7, 71, 111, 71, 76, 76, 107, 7, 76, 74, 73,
    5, 69, 107, 11, 77, 77, 109, 5, 81, 81, 77, 7, 71, 111, 71, 77, 111, 15, 111, 7, 78, 76, 103, 75, 7, 71, 111, 71, 76, 76,
    107, 7, 76, 74, 73, 5, 69, 107, 11, 77, 77, 109, 5, 81, 79, 75, 14, 78, 107, 7, 76, 74, 73, 5, 69, 107, 11, 77, 77, 109,
    5, 79, 77, 77, 73, 5, 69, 107, 11, 77, 75, 107, 107, 5, 77, 73, 13, 77, 75, 107, 107, 5, 111, 15, 7, 78, 76, 103, 75, 15,
    113, 7, 71, 71, 71, 111, 71, 76, 76, 107, 7, 76, 74, 73, 5, 69, 107, 11, 77, 77, 109, 5, 81, 79, 75, 14, 78, 107, 7, 76,
    74, 73, 5, 69, 107, 11, 77, 77, 109, 5, 79, 77, 77, 73, 5, 69, 107, 11, 77, 75, 107, 107, 5, 77, 73, 13, 77, 75, 107, 107,
    5, 79, 113, 7, 79, 9, 80, 78, 105, 77, 9, 73, 79, 77, 17, 79, 9, 73, 113, 73, 79, 113, 17, 113, 9, 80, 78, 105, 77, 9,
    75, 115, 75, 75, 75, 83, 115, 9, 83, 81, 76, 9, 112, 7, 74, 11, 7, 71, 74, 10, 15, 103, 71, 71, 71, 106, 71, 109, 5, 103,
    76, 71, 71, 3, 71, 111, 76, 71, 75, 7, 71, 111, 71, 77, 111, 15, 111, 7, 78, 76, 103, 75, 7, 71, 111, 71, 76, 76, 107, 7,
    76, 74, 73, 5, 69, 107, 11, 77, 77, 109, 5, 113, 17, 71, 71, 71, 73, 71, 77, 111, 15, 111, 7, 78, 76, 103, 75, 7, 71, 111,
    71, 76, 76, 107, 7, 76, 74, 73, 5, 69, 107, 11, 77, 77, 109, 5, 81, 81, 77, 7, 71, 111, 71, 77, 111, 15, 111, 7, 78, 76,
    103, 75, 7, 71, 111, 71, 76, 76, 107, 7, 76, 74, 73, 5, 69, 107, 11, 77, 77, 109, 5, 81, 79, 75, 14, 78, 107, 7, 76, 74,
    73, 5, 69, 107, 11, 77, 77, 109, 5, 79, 77, 77, 73, 5, 69, 107, 11, 77, 75, 107, 107, 5, 77, 73, 13, 77, 75, 107, 107, 5,
    111, 15, 7, 78, 76, 103, 75, 15, 113, 7, 71, 71, 71, 111, 71, 76, 76, 107, 7, 76, 74, 73, 5, 69, 107, 11, 77, 77, 109, 5,
    81, 79, 75, 14, 78, 107, 7, 76, 74, 73, 5, 69, 107, 11, 77, 77, 109, 5, 79, 77, 77, 73, 5, 69, 107, 11, 77, 75, 107, 107,
    5, 77, 73, 13, 77, 75, 107, 107, 5, 79, 77, 7, 71, 111, 71, 76, 76, 107, 17, 71, 71, 71, 73, 71, 76, 76, 107, 7, 76, 74,
    73, 5, 69, 107, 11, 77, 77, 109, 5, 81, 79, 75, 14, 78, 107, 7, 76, 74, 73, 5, 69, 107, 11, 77, 77, 109, 5, 79, 77, 77,
    73, 5, 69, 107, 11, 77, 75, 107, 107, 5, 77, 73, 13, 77, 75, 107, 107, 5, 79, 75, 14, 103, 74, 103, 77, 73, 5, 69, 107, 11,
    77, 75, 107, 107, 9, 5, 74, 72, 71, 9, 75, 75, 73, 5, 69, 107, 10, 71, 69, 72, 73, 73, 105, 7, 107, 107, 105, 105, 104, 104,
    107, 9, 5, 74, 72, 70, 8, 107, 5, 75, 70, 8, 107, 5, 75, 73, 71, 9, 73, 73, 71, 9, 107, 109, 13, 111, 15, 7, 78, 76,
    103, 75, 7, 71, 111, 71, 76, 76, 107, 17, 71, 71, 71, 73, 71, 76, 76, 107, 7, 76, 74, 73, 5, 69, 107, 11, 77, 77, 109, 5,
    81, 79, 75, 14, 78, 107, 7, 76, 74, 73, 5, 69, 107, 11, 77, 77, 109, 5, 79, 77, 77, 73, 5, 69, 107, 11, 77, 75, 107, 107,
    5, 77, 73, 13, 77, 75, 107, 107, 5, 79, 75, 14, 103, 74, 103, 77, 73, 5, 69, 107, 11, 77, 75, 107, 107, 9, 5, 74, 72, 71,
    9, 75, 75, 73, 5, 69, 107, 10, 71, 69, 72, 73, 73, 105, 7, 107, 107, 105, 105, 104, 104, 107, 9, 5, 74, 72, 70, 8, 107, 5,
    75, 70, 8, 107, 5, 75, 73, 71, 9, 73, 73, 71, 9, 107, 109, 5, 103, 81, 73, 73, 73, 111, 5, 73, 115, 73, 73, 73, 75, 73,
    79, 113, 17, 115, 9, 83, 81, 77, 13, 16, 78, 105, 77, 9, 73, 75, 73, 79, 76, 16, 107, 107, 80, 75, 80, 75, 115, 9, 83, 81,
    76, 9, 112, 7, 74, 11, 7, 71, 74, 10, 15, 103, 71, 71, 71, 106, 71, 109, 5, 103, 76, 71, 71, 3, 71, 111, 76, 71, 75, 7,
    71, 111, 71, 77, 111, 15, 111, 7, 78, 76, 103, 75, 7, 71, 111, 71, 76, 76, 107, 7, 76, 74, 73, 5, 69, 107, 11, 77, 77, 109,
    5, 113, 17, 71, 71, 71, 73, 71, 77, 111, 15, 111, 7, 78, 76, 103, 75, 7, 71, 111, 71, 76, 76, 107, 7, 76, 74, 73, 5, 69,
    107, 11, 77, 77, 109, 5, 81, 81, 77, 7, 71, 111, 71, 77, 111, 15, 111, 7, 78, 76, 103, 75, 7, 71, 111, 71, 76, 76, 107, 7,
    76, 74, 73, 5, 69, 107, 11, 77, 77, 109, 5, 81, 79, 75, 14, 78, 107, 7, 76, 74, 73, 5, 69, 107, 11, 77, 77, 109, 5, 79,
    77, 77, 73, 5, 69, 107, 11, 77, 75, 107, 107, 5, 77, 73, 13, 77, 75, 107, 107, 5, 111, 15, 7, 78, 76, 103, 75, 15, 113, 7,
    71, 71, 71, 111, 71, 76, 76, 107, 7, 76, 74, 73, 5, 69, 107, 11, 77, 77, 109, 5, 81, 79, 75, 14, 78, 107, 7, 76, 74, 73,
    5, 69, 107, 11, 77, 77, 109, 5, 79, 77, 77, 73, 5, 69, 107, 11, 77, 75, 107, 107, 5, 77, 73, 13, 77, 75, 107, 107, 5, 79,
    77, 7, 71, 111, 71, 76, 76, 107, 17, 71, 71, 71, 73, 71, 76, 76, 107, 7, 76, 74, 73, 5, 69, 107, 11, 77, 77, 109, 5, 81,
    79, 75, 14, 78, 107, 7, 76, 74, 73, 5, 69, 107, 11, 77, 77, 109, 5, 79, 77, 77, 73, 5, 69, 107, 11, 77, 75, 107, 107, 5,
    77, 73, 13, 77, 75, 107, 107, 5, 79, 75, 14, 103, 74, 103, 77, 73, 5, 69, 107, 11, 77, 75, 107, 107, 9, 5, 74, 72, 71, 9,
    75, 75, 73, 5, 69, 107, 10, 71, 69, 72, 73, 73, 105, 7, 107, 107, 105, 105, 104, 104, 107, 9, 5, 74, 72, 70, 8, 107, 5, 75,
    70, 8, 107, 5, 75, 73, 71, 9, 73, 73, 71, 9, 107, 109, 13, 111, 15, 7, 78, 76, 103, 75, 7, 71, 111, 71, 76, 76, 107, 17,
    71, 71, 71, 73, 71, 76, 76, 107, 7, 76, 74, 73, 5, 69, 107, 11, 77, 77, 109, 5, 81, 79, 75, 14, 78, 107, 7, 76, 74, 73,
    5, 69, 107, 11, 77, 77, 109, 5, 79, 77, 77, 73, 5, 69, 107, 11, 77, 75, 107, 107, 5, 77, 73, 13, 77, 75, 107, 107, 5, 79,
    75, 14, 103, 74, 103, 77, 73, 5, 69, 107, 11, 77, 75, 107, 107, 9, 5, 74, 72, 71, 9, 75, 75, 73, 5, 69, 107, 10, 71, 69,
    72, 73, 73, 105, 7, 107, 107, 105, 105, 104, 104, 107, 9, 5, 74, 72, 70, 8, 107, 5, 75, 70, 8, 107, 5, 75, 73, 71, 9, 73,
    73, 71, 9, 107, 109, 5, 103, 81, 73, 73, 73, 111, 5, 71, 113, 71, 71, 71, 73, 71, 77, 111, 15, 113, 7, 81, 79, 75, 11, 14,
    76, 103, 75, 7, 71, 3, 71, 113, 71, 75, 7, 71, 71, 73, 71, 77, 111, 15, 111, 7, 78, 76, 103, 75, 7, 71, 111, 71, 76, 76,
    107, 7, 76, 74, 73, 5, 69, 107, 11, 77, 77, 109, 5, 81, 81, 77, 7, 71, 111, 71, 77, 111, 15, 111, 7, 78, 76, 103, 75, 7,
    71, 111, 71, 76, 76, 107, 7, 76, 74, 73, 5, 69, 107, 11, 77, 77, 109, 5, 81, 79, 75, 14, 78, 107, 7, 76, 74, 73, 5, 69,
    107, 11, 77, 77, 109, 5, 79, 77, 77, 73, 5, 69, 107, 11, 77, 75, 107, 107, 5, 77, 73, 13, 77, 75, 107, 107, 5, 79, 77, 7,
    71, 111, 71, 76, 76, 107, 17, 71, 71, 71, 73, 71, 76, 76, 107, 7, 76, 74, 73, 5, 69, 107, 11, 77, 77, 109, 5, 81, 79, 75,
    14, 78, 107, 7, 76, 74, 73, 5, 69, 107, 11, 77, 77, 109, 5, 79, 77, 77, 73, 5, 69, 107, 11, 77, 75, 107, 107, 5, 77, 73,
    13, 77, 75, 107, 107, 5, 79, 75, 14, 103, 74, 103, 77, 73, 5, 69, 107, 11, 77, 75, 107, 107, 9, 5, 74, 72, 71, 9, 75, 75,
    73, 5, 69, 107, 10, 71, 69, 72, 73, 73, 105, 7, 107, 107, 105, 105, 104, 104, 107, 9, 5, 74, 72, 70, 8, 107, 5, 75, 70, 8,
    107, 5, 75, 73, 71, 9, 73, 73, 71, 9, 107, 109, 5, 103, 81, 73, 73, 81, 113, 7, 81, 79, 75, 7, 71, 71, 109, 5, 78, 76,
    103, 75, 7, 71, 71, 109, 5, 76, 74, 101, 77, 73, 5, 69, 107, 5, 78, 76, 103, 75, 7, 71, 71, 109, 5, 76, 74, 101, 77, 73,
    5, 69, 107, 5, 76, 74, 101, 77, 73, 5, 69, 107, 11, 77, 75, 107, 107, 5, 77, 73, 12, 74, 107, 5, 75, 73, 71, 9, 75, 75,
    75, 73, 72, 72, 73, 9, 7, 71, 71, 71, 77, 109, 5, 76, 74, 101, 73, 13, 77, 75, 75, 73, 5, 69, 107, 5, 76, 74, 101, 77,
    73, 5, 69, 107, 11, 77, 75, 107, 107, 5, 77, 73, 12, 74, 107, 5, 75, 73, 71, 9, 75, 75, 75, 73, 72, 72, 73, 5, 69, 107,
    5, 78, 76, 103, 75, 7, 71, 71, 109, 5, 76, 74, 101, 77, 73, 5, 69, 107, 5, 76, 74, 101, 77, 73, 5, 69, 107, 11, 77, 75,
    107, 107, 5, 77, 73, 12, 74, 107, 5, 75, 73, 71, 9, 75, 75, 75, 73, 72, 72, 73, 9, 7, 69, 69, 69, 75, 107, 10, 71, 69,
    72, 73, 73, 105, 7, 105, 105, 9, 75, 77, 77, 77, 75, 75, 75, 75, 5, 69, 69, 77, 75, 107, 10, 69, 69, 71, 69, 69, 69, 72,
    73, 73, 105, 7, 107, 107, 105, 105, 104, 104, 107, 5, 77, 73, 12, 74, 107, 5, 75, 70, 8, 107, 5, 75, 73, 71, 9, 73, 70, 8,
    107, 5, 75, 73, 71, 9, 73, 73, 71, 9, 73, 73, 73, 71, 71, 71, 71, 9, 75, 77, 77, 75, 75, 75, 75, 5, 71, 73, 81, 79,
    79, 77, 109, 5, 73, 75, 75, 115, 75, 75, 75, 83, 115, 9, 83, 81, 77, 9, 73, 75, 73, 79, 76, 16, 107, 107, 80, 75, 80, 75,
    115, 9, 83, 81, 76, 9, 112, 7, 74, 11, 7, 71, 74, 10, 15, 103, 71, 71, 71, 106, 71, 109, 5, 103, 76, 71, 71, 3, 71, 111,
    76, 71, 75, 7, 71, 111, 71, 77, 111, 15, 111, 7, 78, 76, 103, 75, 7, 71, 111, 71, 76, 76, 107, 7, 76, 74, 73, 5, 69, 107,
    11, 77, 77, 109, 5, 113, 17, 71, 71, 71, 73, 71, 77, 111, 15, 111, 7, 78, 76, 103, 75, 7, 71, 111, 71, 76, 76, 107, 7, 76,
    74, 73, 5, 69, 107, 11, 77, 77, 109, 5, 81, 81, 77, 7, 71, 111, 71, 77, 111, 15, 111, 7, 78, 76, 103, 75, 7, 71, 111, 71,
    76, 76, 107, 7, 76, 74, 73, 5, 69, 107, 11, 77, 77, 109, 5, 81, 79, 75, 14, 78, 107, 7, 76, 74, 73, 5, 69, 107, 11, 77,
    77, 109, 5, 79, 77, 77, 73, 5, 69, 107, 11, 77, 75, 107, 107, 5, 77, 73, 13, 77, 75, 107, 107, 5, 111, 15, 7, 78, 76, 103,
    75, 15, 113, 7, 71, 71, 71, 111, 71, 76, 76, 107, 7, 76, 74, 73, 5, 69, 107, 11, 77, 77, 109, 5, 81, 79, 75, 14, 78, 107,
    7, 76, 74, 73, 5, 69, 107, 11, 77, 77, 109, 5, 79, 77, 77, 73, 5, 69, 107, 11, 77, 75, 107, 107, 5, 77, 73, 13, 77, 75,
    107, 107, 5, 79, 77, 7, 71, 111, 71, 76, 76, 107, 17, 71, 71, 71, 73, 71, 76, 76, 107, 7, 76, 74, 73, 5, 69, 107, 11, 77,
    77, 109, 5, 81, 79, 75, 14, 78, 107, 7, 76, 74, 73, 5, 69, 107, 11, 77, 77, 109, 5, 79, 77, 77, 73, 5, 69, 107, 11, 77,
    75, 107, 107, 5, 77, 73, 13, 77, 75, 107, 107, 5, 79, 75, 14, 103, 74, 103, 77, 73, 5, 69, 107, 11, 77, 75, 107, 107, 9, 5,
    74, 72, 71, 9, 75, 75, 73, 5, 69, 107, 10, 71, 69, 72, 73, 73, 105, 7, 107, 107, 105, 105, 104, 104, 107, 9, 5, 74, 72, 70,
    8, 107, 5, 75, 70, 8, 107, 5, 75, 73, 71, 9, 73, 73, 71, 9, 107, 109, 13, 111, 15, 7, 78, 76, 103, 75, 7, 71, 111, 71,
    76, 76, 107, 17, 71, 71, 71, 73, 71, 76, 76, 107, 7, 76, 74, 73, 5, 69, 107, 11, 77, 77, 109, 5, 81, 79, 75, 14, 78, 107,
    7, 76, 74, 73, 5, 69, 107, 11, 77, 77, 109, 5, 79, 77, 77, 73, 5, 69, 107, 11, 77, 75, 107, 107, 5, 77, 73, 13, 77, 75,
    107, 107, 5, 79, 75, 14, 103, 74, 103, 77, 73, 5, 69, 107, 11, 77, 75, 107, 107, 9, 5, 74, 72, 71, 9, 75, 75, 73, 5, 69,
    107, 10, 71, 69, 72, 73, 73, 105, 7, 107, 107, 105, 105, 104, 104, 107, 9, 5, 74, 72, 70, 8, 107, 5, 75, 70, 8, 107, 5, 75,
    73, 71, 9, 73, 73, 71, 9, 107, 109, 5, 103, 81, 73, 73, 73, 111, 5, 71, 113, 71, 71, 71, 73, 71, 77, 111, 15, 113, 7, 81,
    79, 75, 11, 14, 76, 103, 75, 7, 71, 3, 71, 113, 71, 75, 7, 71, 71, 73, 71, 77, 111, 15, 111, 7, 78, 76, 103, 75, 7, 71,
    111, 71, 76, 76, 107, 7, 76, 74, 73, 5, 69, 107, 11, 77, 77, 109, 5, 81, 81, 77, 7, 71, 111, 71, 77, 111, 15, 111, 7, 78,
    76, 103, 75, 7, 71, 111, 71, 76, 76, 107, 7, 76, 74, 73, 5, 69, 107, 11, 77, 77, 109, 5, 81, 79, 75, 14, 78, 107, 7, 76,
    74, 73, 5, 69, 107, 11, 77, 77, 109, 5, 79, 77, 77, 73, 5, 69, 107, 11, 77, 75, 107, 107, 5, 77, 73, 13, 77, 75, 107, 107,
    5, 79, 77, 7, 71, 111, 71, 76, 76, 107, 17, 71, 71, 71, 73, 71, 76, 76, 107, 7, 76, 74, 73, 5, 69, 107, 11, 77, 77, 109,
    5, 81, 79, 75, 14, 78, 107, 7, 76, 74, 73, 5, 69, 107, 11, 77, 77, 109, 5, 79, 77, 77, 73, 5, 69, 107, 11, 77, 75, 107,
    107, 5, 77, 73, 13, 77, 75, 107, 107, 5, 79, 75, 14, 103, 74, 103, 77, 73, 5, 69, 107, 11, 77, 75, 107, 107, 9, 5, 74, 72,
    71, 9, 75, 75, 73, 5, 69, 107, 10, 71, 69, 72, 73, 73, 105, 7, 107, 107, 105, 105, 104, 104, 107, 9, 5, 74, 72, 70, 8, 107,
    5, 75, 70, 8, 107, 5, 75, 73, 71, 9, 73, 73, 71, 9, 107, 109, 5, 103, 81, 73, 73, 81, 113, 7, 81, 79, 75, 7, 71, 71,
    109, 5, 78, 76, 103, 75, 7, 71, 71, 109, 5, 76, 74, 101, 77, 73, 5, 69, 107, 5, 78, 76, 103, 75, 7, 71, 71, 109, 5, 76,
    74, 101, 77, 73, 5, 69, 107, 5, 76, 74, 101, 77, 73, 5, 69, 107, 11, 77, 75, 107, 107, 5, 77, 73, 12, 74, 107, 5, 75, 73,
    71, 9, 75, 75, 75, 73, 72, 72, 73, 9, 7, 71, 71, 71, 77, 109, 5, 76, 74, 101, 73, 13, 77, 75, 75, 73, 5, 69, 107, 5,
    76, 74, 101, 77, 73, 5, 69, 107, 11, 77, 75, 107, 107, 5, 77, 73, 12, 74, 107, 5, 75, 73, 71, 9, 75, 75, 75, 73, 72, 72,
    73, 5, 69, 107, 5, 78, 76, 103, 75, 7, 71, 71, 109, 5, 76, 74, 101, 77, 73, 5, 69, 107, 5, 76, 74, 101, 77, 73, 5, 69,
    107, 11, 77, 75, 107, 107, 5, 77, 73, 12, 74, 107, 5, 75, 73, 71, 9, 75, 75, 75, 73, 72, 72, 73, 9, 7, 69, 69, 69, 75,
    107, 10, 71, 69, 72, 73, 73, 105, 7, 105, 105, 9, 75, 77, 77, 77, 75, 75, 75, 75, 5, 69, 69, 77, 75, 107, 10, 69, 69, 71,
    69, 69, 69, 72, 73, 73, 105, 7, 107, 107, 105, 105, 104, 104, 107, 5, 77, 73, 12, 74, 107, 5, 75, 70, 8, 107, 5, 75, 73, 71,
    9, 73, 70, 8, 107, 5, 75, 73, 71, 9, 73, 73, 71, 9, 73, 73, 73, 71, 71, 71, 71, 9, 75, 77, 77, 75, 75, 75, 75, 5,
    71, 73, 81, 79, 79, 77, 109, 5, 71, 73, 73, 113, 73, 73, 73, 81, 113, 7, 81, 79, 75, 7, 71, 3, 71, 113, 71, 75, 7, 71,
    71, 73, 71, 77, 111, 15, 111, 7, 78, 76, 103, 75, 7, 71, 111, 71, 76, 76, 107, 7, 76, 74, 73, 5, 69, 107, 11, 77, 77, 109,
    5, 81, 81, 77, 7, 71, 111, 71, 77, 111, 15, 111, 7, 78, 76, 103, 75, 7, 71, 111, 71, 76, 76, 107, 7, 76, 74, 73, 5, 69,
    107, 11, 77, 77, 109, 5, 81, 79, 75, 14, 78, 107, 7, 76, 74, 73, 5, 69, 107, 11, 77, 77, 109, 5, 79, 77, 77, 73, 5, 69,
    107, 11, 77, 75, 107, 107, 5, 77, 73, 13, 77, 75, 107, 107, 5, 79, 77, 7, 71, 111, 71, 76, 76, 107, 17, 71, 71, 71, 73, 71,
    76, 76, 107, 7, 76, 74, 73, 5, 69, 107, 11, 77, 77, 109, 5, 81, 79, 75, 14, 78, 107, 7, 76, 74, 73, 5, 69, 107, 11, 77,
    77, 109, 5, 79, 77, 77, 73, 5, 69, 107, 11, 77, 75, 107, 107, 5, 77, 73, 13, 77, 75, 107, 107, 5, 79, 75, 14, 103, 74, 103,
    77, 73, 5, 69, 107, 11, 77, 75, 107, 107, 9, 5, 74, 72, 71, 9, 75, 75, 73, 5, 69, 107, 10, 71, 69, 72, 73, 73, 105, 7,
    107, 107, 105, 105, 104, 104, 107, 9, 5, 74, 72, 70, 8, 107, 5, 75, 70, 8, 107, 5, 75, 73, 71, 9, 73, 73, 71, 9, 107, 109,
    5, 103, 81, 73, 73, 81, 113, 7, 81, 79, 75, 7, 71, 71, 109, 5, 78, 76, 103, 75, 7, 71, 71, 109, 5, 76, 74, 101, 77, 73,
    5, 69, 107, 5, 78, 76, 103, 75, 7, 71, 71, 109, 5, 76, 74, 101, 77, 73, 5, 69, 107, 5, 76, 74, 101, 77, 73, 5, 69, 107,
    11, 77, 75, 107, 107, 5, 77, 73, 12, 74, 107, 5, 75, 73, 71, 9, 75, 75, 75, 73, 72, 72, 73, 9, 7, 71, 71, 71, 77, 109,
    5, 76, 74, 101, 73, 13, 77, 75, 75, 73, 5, 69, 107, 5, 76, 74, 101, 77, 73, 5, 69, 107, 11, 77, 75, 107, 107, 5, 77, 73,
    12, 74, 107, 5, 75, 73, 71, 9, 75, 75, 75, 73, 72, 72, 73, 5, 69, 107, 5, 78, 76, 103, 75, 7, 71, 71, 109, 5, 76, 74,
    101, 77, 73, 5, 69, 107, 5, 76, 74, 101, 77, 73, 5, 69, 107, 11, 77, 75, 107, 107, 5, 77, 73, 12, 74, 107, 5, 75, 73, 71,
    9, 75, 75, 75, 73, 72, 72, 73, 9, 7, 69, 69, 69, 75, 107, 10, 71, 69, 72, 73, 73, 105, 7, 105, 105, 9, 75, 77, 77, 77,
    75, 75, 75, 75, 5, 69, 69, 77, 75, 107, 10, 69, 69, 71, 69, 69, 69, 72, 73, 73, 105, 7, 107, 107, 105, 105, 104, 104, 107, 5,
    77, 73, 12, 74, 107, 5, 75, 70, 8, 107, 5, 75, 73, 71, 9, 73, 70, 8, 107, 5, 75, 73, 71, 9, 73, 73, 71, 9, 73, 73,
    73, 71, 71, 71, 71, 9, 75, 77, 77, 75, 75, 75, 75, 5, 79, 113, 7, 79, 75, 7, 71, 71, 109, 5, 78, 76, 103, 75, 7, 71,
    71, 109, 5, 76, 74, 101, 77, 73, 5, 69, 107, 5, 78, 76, 103, 75, 7, 71, 71, 109, 5, 76, 74, 101, 77, 73, 5, 69, 107, 5,
    76, 74, 101, 77, 73, 5, 69, 107, 11, 77, 75, 107, 107, 5, 77, 73, 12, 74, 107, 5, 75, 73, 71, 9, 75, 75, 75, 73, 72, 72,
    73, 9, 7, 71, 71, 71, 77, 109, 5, 76, 74, 101, 73, 13, 77, 75, 75, 73, 5, 69, 107, 5, 76, 74, 101, 77, 73, 5, 69, 107,
    11, 77, 75, 107, 107, 5, 77, 73, 12, 74, 107, 5, 75, 73, 71, 9, 75, 75, 75, 73, 72, 72, 73, 5, 69, 107, 5, 78, 76, 103,
    75, 7, 71, 71, 109, 5, 76, 74, 101, 77, 73, 5, 69, 107, 5, 76, 74, 101, 77, 73, 5, 69, 107, 11, 77, 75, 107, 107, 5, 77,
    73, 12, 74, 107, 5, 75, 73, 71, 9, 75, 75, 75, 73, 72, 72, 73, 9, 7, 69, 69, 69, 75, 107, 10, 71, 69, 72, 73, 73, 105,
    7, 105, 105, 9, 75, 77, 77, 77, 75, 75, 75, 75, 5, 69, 69, 77, 75, 107, 10, 69, 69, 71, 69, 69, 69, 72, 73, 73, 105, 7,
    107, 107, 105, 105, 104, 104, 107, 5, 77, 73, 12, 74, 107, 5, 75, 70, 8, 107, 5, 75, 73, 71, 9, 73, 70, 8, 107, 5, 75, 73,
    71, 9, 73, 73, 71, 9, 73, 73, 73, 71, 71, 71, 71, 9, 75, 77, 77, 75, 75, 75, 75, 5, 71, 71, 79, 77, 108, 12, 76, 14,
    99, 66, 3, 98, 99, 105, 7, 11, 3, 99, 99, 99, 105, 71, 11, 75, 71, 3, 107, 107, 11, 105, 105, 73, 71, 3, 109, 109, 12, 71,
    69, 72, 105, 105, 3, 99, 99, 99, 99, 105, 71, 9, 71, 11, 71, 11, 105, 105, 73, 71, 3, 107, 107, 11, 105, 105, 73, 71, 3, 109,
    109, 12, 71, 69, 72, 105, 105, 3, 99, 99, 99, 99, 105, 71, 9, 71, 11, 71, 11, 105, 105, 73, 71, 3, 107, 107, 11, 105, 105, 73,
    71, 3, 107, 107, 11, 105, 105, 105, 105, 3, 99, 99, 99, 99, 105, 103, 103, 69, 7, 73, 73, 73, 71, 70, 70, 71, 3, 107, 107, 11,
    105, 105, 73, 71, 3, 109, 109, 12, 71, 69, 72, 105, 105, 3, 99, 99, 99, 99, 105, 71, 9, 71, 11, 71, 11, 105, 105, 73, 71, 3,
    107, 107, 11, 105, 105, 73, 71, 3, 107, 107, 11, 105, 105, 105, 105, 3, 99, 99, 99, 99, 105, 103, 103, 69, 7, 73, 73, 73, 71, 70,
    70, 71, 3, 107, 107, 11, 105, 105, 73, 71, 3, 107, 107, 11, 105, 105, 105, 105, 3, 99, 99, 99, 99, 105, 103, 103, 69, 7, 73, 73,
    73, 71, 70, 70, 71, 3, 107, 107, 10, 69, 67, 70, 103, 102, 4, 71, 3, 105, 9, 103, 103, 103, 102, 4, 71, 3, 105, 9, 103, 103,
    103, 103, 7, 103, 103, 103, 101, 101, 101, 101, 103, 5, 73, 75, 75, 73, 73, 73, 73, 3, 109, 111, 109, 109, 109, 109, 1, 71, 73, 75,
    81, 7, 69, 69, 69, 71, 69, 71, 73, 115, 73, 73, 73, 75, 73, 79, 113, 17, 115, 7, 73, 9, 73, 9, 73, 115, 73, 73, 73, 75,
    73, 79, 77, 17, 79, 9, 73, 113, 73, 79, 113, 17, 113, 9, 80, 78, 105, 77, 9, 75, 115, 75, 75, 75, 77, 75, 81, 115, 9, 73,
    73, 73, 113, 73, 79, 113, 17, 115, 9, 83, 81, 77, 13, 16, 78, 105, 77, 9, 73, 75, 73, 79, 76, 16, 107, 107, 80, 75, 80, 75,
    115, 9, 83, 81, 76, 9, 112, 7, 74, 11, 7, 71, 74, 10, 15, 103, 71, 71, 71, 106, 71, 109, 5, 103, 76, 71, 71, 73, 71, 71,
    71, 74, 75, 107, 5, 79, 113, 7, 79, 9, 80, 78, 105, 77, 9, 73, 79, 77, 17, 79, 9, 73, 113, 73, 79, 113, 17, 113, 9, 80,
    78, 105, 77, 9, 75, 115, 75, 75, 75, 83, 115, 9, 83, 81, 76, 9, 112, 7, 74, 11, 7, 71, 74, 10, 15, 103, 71, 71, 71, 106,
    71, 109, 5, 103, 76, 71, 71, 3, 71, 111, 76, 71, 75, 7, 71, 111, 71, 77, 111, 15, 111, 7, 78, 76, 103, 75, 7, 71, 111, 71,
    76, 76, 107, 7, 76, 74, 73, 5, 69, 107, 11, 77, 77, 109, 5, 113, 17, 71, 71, 71, 73, 71, 77, 111, 15, 111, 7, 78, 76, 103,
    75, 7, 71, 111, 71, 76, 76, 107, 7, 76, 74, 73, 5, 69, 107, 11, 77, 77, 109, 5, 81, 81, 113, 7, 79, 9, 82, 107, 75, 75,
    77, 75, 75, 78, 75, 79, 9, 79, 9, 73, 73, 73, 113, 73, 79, 113, 17, 113, 9, 80, 78, 105, 77, 9, 75, 115, 75, 75, 75, 83,
    115, 9, 83, 81, 76, 9, 112, 7, 74, 11, 7, 71, 74, 10, 15, 103, 71, 71, 71, 106, 71, 109, 5, 103, 76, 71, 71, 3, 71, 111,
    76, 71, 75, 7, 71, 111, 71, 77, 111, 15, 111, 7, 78, 76, 103, 75, 7, 71, 111, 71, 76, 76, 107, 7, 76, 74, 73, 5, 69, 107,
    11, 77, 77, 109, 5, 113, 17, 71, 71, 71, 73, 71, 77, 111, 15, 111, 7, 78, 76, 103, 75, 7, 71, 111, 71, 76, 76, 107, 7, 76,
    74, 73, 5, 69, 107, 11, 77, 77, 109, 5, 81, 81, 77, 7, 71, 111, 71, 77, 111, 15, 111, 7, 78, 76, 103, 75, 7, 71, 111, 71,
    76, 76, 107, 7, 76, 74, 73, 5, 69, 107, 11, 77, 77, 109, 5, 81, 79, 75, 14, 78, 107, 7, 76, 74, 73, 5, 69, 107, 11, 77,
    77, 109, 5, 79, 77, 77, 73, 5, 69, 107, 11, 77, 75, 107, 107, 5, 77, 73, 13, 77, 75, 107, 107, 5, 111, 15, 7, 78, 76, 103,
    75, 15, 113, 7, 71, 71, 71, 111, 71, 76, 76, 107, 7, 76, 74, 73, 5, 69, 107, 11, 77, 77, 109, 5, 81, 79, 75, 14, 78, 107,
    7, 76, 74, 73, 5, 69, 107, 11, 77, 77, 109, 5, 79, 77, 77, 73, 5, 69, 107, 11, 77, 75, 107, 107, 5, 77, 73, 13, 77, 75,
    107, 107, 5, 79, 113, 7, 79, 9, 80, 78, 105, 77, 9, 73, 79, 77, 17, 79, 9, 73, 113, 73, 79, 113, 17, 113, 9, 80, 78, 105,
    77, 9, 75, 115, 75, 75, 75, 83, 115, 9, 83, 81, 76, 9, 112, 7, 74, 11, 7, 71, 74, 10, 15, 103, 71, 71, 71, 106, 71, 109,
    5, 103, 76, 71, 71, 3, 71, 111, 76, 71, 75, 7, 71, 111, 71, 77, 111, 15, 111, 7, 78, 76, 103, 75, 7, 71, 111, 71, 76, 76,
    107, 7, 76, 74, 73, 5, 69, 107, 11, 77, 77, 109, 5, 113, 17, 71, 71, 71, 73, 71, 77, 111, 15, 111, 7, 78, 76, 103, 75, 7,
    71, 111, 71, 76, 76, 107, 7, 76, 74, 73, 5, 69, 107, 11, 77, 77, 109, 5, 81, 81, 77, 7, 71, 111, 71, 77, 111, 15, 111, 7,
    78, 76, 103, 75, 7, 71, 111, 71, 76, 76, 107, 7, 76, 74, 73, 5, 69, 107, 11, 77, 77, 109, 5, 81, 79, 75, 14, 78, 107, 7,
    76, 74, 73, 5, 69, 107, 11, 77, 77, 109, 5, 79, 77, 77, 73, 5, 69, 107, 11, 77, 75, 107, 107, 5, 77, 73, 13, 77, 75, 107,
    107, 5, 111, 15, 7, 78, 76, 103, 75, 15, 113, 7, 71, 71, 71, 111, 71, 76, 76, 107, 7, 76, 74, 73, 5, 69, 107, 11, 77, 77,
    109, 5, 81, 79, 75, 14, 78, 107, 7, 76, 74, 73, 5, 69, 107, 11, 77, 77, 109, 5, 79, 77, 77, 73, 5, 69, 107, 11, 77, 75,
    107, 107, 5, 77, 73, 13, 77, 75, 107, 107, 5, 79, 77, 7, 71, 111, 71, 76, 76, 107, 17, 71, 71, 71, 73, 71, 76, 76, 107, 7,
    76, 74, 73, 5, 69, 107, 11, 77, 77, 109, 5, 81, 79, 75, 14, 78, 107, 7, 76, 74, 73, 5, 69, 107, 11, 77, 77, 109, 5, 79,
    77, 77, 73, 5, 69, 107, 11, 77, 75, 107, 107, 5, 77, 73, 13, 77, 75, 107, 107, 5, 79, 75, 14, 103, 74, 103, 77, 73, 5, 69,
    107, 11, 77, 75, 107, 107, 9, 5, 74, 72, 71, 9, 75, 75, 73, 5, 69, 107, 10, 71, 69, 72, 73, 73, 105, 7, 107, 107, 105, 105,
    104, 104, 107, 9, 5, 74, 72, 70, 8, 107, 5, 75, 70, 8, 107, 5, 75, 73, 71, 9, 73, 73, 71, 9, 107, 109, 13, 111, 15, 7,
    78, 76, 103, 75, 7, 71, 111, 71, 76, 76, 107, 17, 71, 71, 71, 73, 71, 76, 76, 107, 7, 76, 74, 73, 5, 69, 107, 11, 77, 77,
    109, 5, 81, 79, 75, 14, 78, 107, 7, 76, 74, 73, 5, 69, 107, 11, 77, 77, 109, 5, 79, 77, 77, 73, 5, 69, 107, 11, 77, 75,
    107, 107, 5, 77, 73, 13, 77, 75, 107, 107, 5, 79, 75, 14, 103, 74, 103, 77, 73, 5, 69, 107, 11, 77, 75, 107, 107, 9, 5, 74,
    72, 71, 9, 75, 75, 73, 5, 69, 107, 10, 71, 69, 72, 73, 73, 105, 7, 107, 107, 105, 105, 104, 104, 107, 9, 5, 74, 72, 70, 8,
    107, 5, 75, 70, 8, 107, 5, 75, 73, 71, 9, 73, 73, 71, 9, 107, 109, 5, 103, 81, 73, 73, 73, 111, 5, 73, 115, 73, 73, 73,
    75, 73, 79, 113, 17, 115, 9, 83, 81, 77, 13, 16, 78, 105, 77, 9, 73, 75, 73, 79, 76, 16, 107, 107, 80, 75, 80, 75, 115, 9,
    83, 81, 76, 9, 112, 7, 74, 11, 7, 71, 74, 10, 15, 103, 71, 71, 71, 106, 71, 109, 5, 103, 76, 71, 71, 3, 71, 111, 76, 71,
    75, 7, 71, 111, 71, 77, 111, 15, 111, 7, 78, 76, 103, 75, 7, 71, 111, 71, 76, 76, 107, 7, 76, 74, 73, 5, 69, 107, 11, 77,
    77, 109, 5, 113, 17, 71, 71, 71, 73, 71, 77, 111, 15, 111, 7, 78, 76, 103, 75, 7, 71, 111, 71, 76, 76, 107, 7, 76, 74, 73,
    5, 69, 107, 11, 77, 77, 109, 5, 81, 81, 77, 7, 71, 111, 71, 77, 111, 15, 111, 7, 78, 76, 103, 75, 7, 71, 111, 71, 76, 76,
    107, 7, 76, 74, 73, 5, 69, 107, 11, 77, 77, 109, 5, 81, 79, 75, 14, 78, 107, 7, 76, 74, 73, 5, 69, 107, 11, 77, 77, 109,
    5, 79, 77, 77, 73, 5, 69, 107, 11, 77, 75, 107, 107, 5, 77, 73, 13, 77, 75, 107, 107, 5, 111, 15, 7, 78, 76, 103, 75, 15,
    113, 7, 71, 71, 71, 111, 71, 76, 76, 107, 7, 76, 74, 73, 5, 69, 107, 11, 77, 77, 109, 5, 81, 79, 75, 14, 78, 107, 7, 76,
    74, 73, 5, 69, 107, 11, 77, 77, 109, 5, 79, 77, 77, 73, 5, 69, 107, 11, 77, 75, 107, 107, 5, 77, 73, 13, 77, 75, 107, 107,
    5, 79, 77, 7, 71, 111, 71, 76, 76, 107, 17, 71, 71, 71, 73, 71, 76, 76, 107, 7, 76, 74, 73, 5, 69, 107, 11, 77, 77, 109,
    5, 81, 79, 75, 14, 78, 107, 7, 76, 74, 73, 5, 69, 107, 11, 77, 77, 109, 5, 79, 77, 77, 73, 5, 69, 107, 11, 77, 75, 107,
    107, 5, 77, 73, 13, 77, 75, 107, 107, 5, 79, 75, 14, 103, 74, 103, 77, 73, 5, 69, 107, 11, 77, 75, 107, 107, 9, 5, 74, 72,
    71, 9, 75, 75, 73, 5, 69, 107, 10, 71, 69, 72, 73, 73, 105, 7, 107, 107, 105, 105, 104, 104, 107, 9, 5, 74, 72, 70, 8, 107,
    5, 75, 70, 8, 107, 5, 75, 73, 71, 9, 73, 73, 71, 9, 107, 109, 13, 111, 15, 7, 78, 76, 103, 75, 7, 71, 111, 71, 76, 76,
    107, 17, 71, 71, 71, 73, 71, 76, 76, 107, 7, 76, 74, 73, 5, 69, 107, 11, 77, 77, 109, 5, 81, 79, 75, 14, 78, 107, 7, 76,
    74, 73, 5, 69, 107, 11, 77, 77, 109, 5, 79, 77, 77, 73, 5, 69, 107, 11, 77, 75, 107, 107, 5, 77, 73, 13, 77, 75, 107, 107,
    5, 79, 75, 14, 103, 74, 103, 77, 73, 5, 69, 107, 11, 77, 75, 107, 107, 9, 5, 74, 72, 71, 9, 75, 75, 73, 5, 69, 107, 10,
    71, 69, 72, 73, 73, 105, 7, 107, 107, 105, 105, 104, 104, 107, 9, 5, 74, 72, 70, 8, 107, 5, 75, 70, 8, 107, 5, 75, 73, 71,
    9, 73, 73, 71, 9, 107, 109, 5, 103, 81, 73, 73, 73, 111, 5, 71, 113, 71, 71, 71, 73, 71, 77, 111, 15, 113, 7, 81, 79, 75,
    11, 14, 76, 103, 75, 7, 71, 3, 71, 113, 71, 75, 7, 71, 71, 73, 71, 77, 111, 15, 111, 7, 78, 76, 103, 75, 7, 71, 111, 71,
    76, 76, 107, 7, 76, 74, 73, 5, 69, 107, 11, 77, 77, 109, 5, 81, 81, 77, 7, 71, 111, 71, 77, 111, 15, 111, 7, 78, 76, 103,
    75, 7, 71, 111, 71, 76, 76, 107, 7, 76, 74, 73, 5, 69, 107, 11, 77, 77, 109, 5, 81, 79, 75, 14, 78, 107, 7, 76, 74, 73,
    5, 69, 107, 11, 77, 77, 109, 5, 79, 77, 77, 73, 5, 69, 107, 11, 77, 75, 107, 107, 5, 77, 73, 13, 77, 75, 107, 107, 5, 79,
    77, 7, 71, 111, 71, 76, 76, 107, 17, 71, 71, 71, 73, 71, 76, 76, 107, 7, 76, 74, 73, 5, 69, 107, 11, 77, 77, 109, 5, 81,
    79, 75, 14, 78, 107, 7, 76, 74, 73, 5, 69, 107, 11, 77, 77, 109, 5, 79, 77, 77, 73, 5, 69, 107, 11, 77, 75, 107, 107, 5,
    77, 73, 13, 77, 75, 107, 107, 5, 79, 75, 14, 103, 74, 103, 77, 73, 5, 69, 107, 11, 77, 75, 107, 107, 9, 5, 74, 72, 71, 9,
    75, 75, 73, 5, 69, 107, 10, 71, 69, 72, 73, 73, 105, 7, 107, 107, 105, 105, 104, 104, 107, 9, 5, 74, 72, 70, 8, 107, 5, 75,
    70, 8, 107, 5, 75, 73, 71, 9, 73, 73, 71, 9, 107, 109, 5, 103, 81, 73, 73, 81, 113, 7, 81, 79, 75, 7, 71, 71, 109, 5,
    78, 76, 103, 75, 7, 71, 71, 109, 5, 76, 74, 101, 77, 73, 5, 69, 107, 5, 78, 76, 103, 75, 7, 71, 71, 109, 5, 76, 74, 101,
    77, 73, 5, 69, 107, 5, 76, 74, 101, 77, 73, 5, 69, 107, 11, 77, 75, 107, 107, 5, 77, 73, 12, 74, 107, 5, 75, 73, 71, 9,
    75, 75, 75, 73, 72, 72, 73, 9, 7, 71, 71, 71, 77, 109, 5, 76, 74, 101, 73, 13, 77, 75, 75, 73, 5, 69, 107, 5, 76, 74,
    101, 77, 73, 5, 69, 107, 11, 77, 75, 107, 107, 5, 77, 73, 12, 74, 107, 5, 75, 73, 71, 9, 75, 75, 75, 73, 72, 72, 73, 5,
    69, 107, 5, 78, 76, 103, 75, 7, 71, 71, 109, 5, 76, 74, 101, 77, 73, 5, 69, 107, 5, 76, 74, 101, 77, 73, 5, 69, 107, 11,
    77, 75, 107, 107, 5, 77, 73, 12, 74, 107, 5, 75, 73, 71, 9, 75, 75, 75, 73, 72, 72, 73, 9, 7, 69, 69, 69, 75, 107, 10,
    71, 69, 72, 73, 73, 105, 7, 105, 105, 9, 75, 77, 77, 77, 75, 75, 75, 75, 5, 69, 69, 77, 75, 107, 10, 69, 69, 71, 69, 69,
    69, 72, 73, 73, 105, 7, 107, 107, 105, 105, 104, 104, 107, 5, 77, 73, 12, 74, 107, 5, 75, 70, 8, 107, 5, 75, 73, 71, 9, 73,
    70, 8, 107, 5, 75, 73, 71, 9, 73, 73, 71, 9, 73, 73, 73, 71, 71, 71, 71, 9, 75, 77, 77, 75, 75, 75, 75, 5, 71, 73,
    81, 79, 79, 77, 109, 5, 73, 75, 75, 115, 75, 75, 75, 83, 115, 9, 83, 81, 77, 9, 73, 75, 73, 79, 76, 16, 107, 107, 80, 75,
    80, 75, 115, 9, 83, 81, 76, 9, 112, 7, 74, 11, 7, 71, 74, 10, 15, 103, 71, 71, 71, 106, 71, 109, 5, 103, 76, 71, 71, 3,
    71, 111, 76, 71, 75, 7, 71, 111, 71, 77, 111, 15, 111, 7, 78, 76, 103, 75, 7, 71, 111, 71, 76, 76, 107, 7, 76, 74, 73, 5,
    69, 107, 11, 77, 77, 109, 5, 113, 17, 71, 71, 71, 73, 71, 77, 111, 15, 111, 7, 78, 76, 103, 75, 7, 71, 111, 71, 76, 76, 107,
    7, 76, 74, 73, 5, 69, 107, 11, 77, 77, 109, 5, 81, 81, 77, 7, 71, 111, 71, 77, 111, 15, 111, 7, 78, 76, 103, 75, 7, 71,
    111, 71, 76, 76, 107, 7, 76, 74, 73, 5, 69, 107, 11, 77, 77, 109, 5, 81, 79, 75, 14, 78, 107, 7, 76, 74, 73, 5, 69, 107,
    11, 77, 77, 109, 5, 79, 77, 77, 73, 5, 69, 107, 11, 77, 75, 107, 107, 5, 77, 73, 13, 77, 75, 107, 107, 5, 111, 15, 7, 78,
    76, 103, 75, 15, 113, 7, 71, 71, 71, 111, 71, 76, 76, 107, 7, 76, 74, 73, 5, 69, 107, 11, 77, 77, 109, 5, 81, 79, 75, 14,
    78, 107, 7, 76, 74, 73, 5, 69, 107, 11, 77, 77, 109, 5, 79, 77, 77, 73, 5, 69, 107, 11, 77, 75, 107, 107, 5, 77, 73, 13,
    77, 75, 107, 107, 5, 79, 77, 7, 71, 111, 71, 76, 76, 107, 17, 71, 71, 71, 73, 71, 76, 76, 107, 7, 76, 74, 73, 5, 69, 107,
    11, 77, 77, 109, 5, 81, 79, 75, 14, 78, 107, 7, 76, 74, 73, 5, 69, 107, 11, 77, 77, 109, 5, 79, 77, 77, 73, 5, 69, 107,
    11, 77, 75, 107, 107, 5, 77, 73, 13, 77, 75, 107, 107, 5, 79, 75, 14, 103, 74, 103, 77, 73, 5, 69, 107, 11, 77, 75, 107, 107,
    9, 5, 74, 72, 71, 9, 75, 75, 73, 5, 69, 107, 10, 71, 69, 72, 73, 73, 105, 7, 107, 107, 105, 105, 104, 104, 107, 9, 5, 74,
    72, 70, 8, 107, 5, 75, 70, 8, 107, 5, 75, 73, 71, 9, 73, 73, 71, 9, 107, 109, 13, 111, 15, 7, 78, 76, 103, 75, 7, 71,
    111, 71, 76, 76, 107, 17, 71, 71, 71, 73, 71, 76, 76, 107, 7, 76, 74, 73, 5, 69, 107, 11, 77, 77, 109, 5, 81, 79, 75, 14,
    78, 107, 7, 76, 74, 73, 5, 69, 107, 11, 77, 77, 109, 5, 79, 77, 77, 73, 5, 69, 107, 11, 77, 75, 107, 107, 5, 77, 73, 13,
    77, 75, 107, 107, 5, 79, 75, 14, 103, 74, 103, 77, 73, 5, 69, 107, 11, 77, 75, 107, 107, 9, 5, 74, 72, 71, 9, 75, 75, 73,
    5, 69, 107, 10, 71, 69, 72, 73, 73, 105, 7, 107, 107, 105, 105, 104, 104, 107, 9, 5, 74, 72, 70, 8, 107, 5, 75, 70, 8, 107,
    5, 75, 73, 71, 9, 73, 73, 71, 9, 107, 109, 5, 103, 81, 73, 73, 73, 111, 5, 71, 113, 71, 71, 71, 73, 71, 77, 111, 15, 113,
    7, 81, 79, 75, 11, 14, 76, 103, 75, 7, 71, 3, 71, 113, 71, 75, 7, 71, 71, 73, 71, 77, 111, 15, 111, 7, 78, 76, 103, 75,
    7, 71, 111, 71, 76, 76, 107, 7, 76, 74, 73, 5, 69, 107, 11, 77, 77, 109, 5, 81, 81, 77, 7, 71, 111, 71, 77, 111, 15, 111,
    7, 78, 76, 103, 75, 7, 71, 111, 71, 76, 76, 107, 7, 76, 74, 73, 5, 69, 107, 11, 77, 77, 109, 5, 81, 79, 75, 14, 78, 107,
    7, 76, 74, 73, 5, 69, 107, 11, 77, 77, 109, 5, 79, 77, 77, 73, 5, 69, 107, 11, 77, 75, 107, 107, 5, 77, 73, 13, 77, 75,
    107, 107, 5, 79, 77, 7, 71, 111, 71, 76, 76, 107, 17, 71, 71, 71, 73, 71, 76, 76, 107, 7, 76, 74, 73, 5, 69, 107, 11, 77,
    77, 109, 5, 81, 79, 75, 14, 78, 107, 7, 76, 74, 73, 5, 69, 107, 11, 77, 77, 109, 5, 79, 77, 77, 73, 5, 69, 107, 11, 77,
    75, 107, 107, 5, 77, 73, 13, 77, 75, 107, 107, 5, 79, 75, 14, 103, 74, 103, 77, 73, 5, 69, 107, 11, 77, 75, 107, 107, 9, 5,
    74, 72, 71, 9, 75, 75, 73, 5, 69, 107, 10, 71, 69, 72, 73, 73, 105, 7, 107, 107, 105, 105, 104, 104, 107, 9, 5, 74, 72, 70,
    8, 107, 5, 75, 70, 8, 107, 5, 75, 73, 71, 9, 73, 73, 71, 9, 107, 109, 5, 103, 81, 73, 73, 81, 113, 7, 81, 79, 75, 7,
    71, 71, 109, 5, 78, 76, 103, 75, 7, 71, 71, 109, 5, 76, 74, 101, 77, 73, 5, 69, 107, 5, 78, 76, 103, 75, 7, 71, 71, 109,
    5, 76, 74, 101, 77, 73, 5, 69, 107, 5, 76, 74, 101, 77, 73, 5, 69, 107, 11, 77, 75, 107, 107, 5, 77, 73, 12, 74, 107, 5,
    75, 73, 71, 9, 75, 75, 75, 73, 72, 72, 73, 9, 7, 71, 71, 71, 77, 109, 5, 76, 74, 101, 73, 13, 77, 75, 75, 73, 5, 69,
    107, 5, 76, 74, 101, 77, 73, 5, 69, 107, 11, 77, 75, 107, 107, 5, 77, 73, 12, 74, 107, 5, 75, 73, 71, 9, 75, 75, 75, 73,
    72, 72, 73, 5, 69, 107, 5, 78, 76, 103, 75, 7, 71, 71, 109, 5, 76, 74, 101, 77, 73, 5, 69, 107, 5, 76, 74, 101, 77, 73,
    5, 69, 107, 11, 77, 75, 107, 107, 5, 77, 73, 12, 74, 107, 5, 75, 73, 71, 9, 75, 75, 75, 73, 72, 72, 73, 9, 7, 69, 69,
    69, 75, 107, 10, 71, 69, 72, 73, 73, 105, 7, 105, 105, 9, 75, 77, 77, 77, 75, 75, 75, 75, 5, 69, 69, 77, 75, 107, 10, 69,
    69, 71, 69, 69, 69, 72, 73, 73, 105, 7, 107, 107, 105, 105, 104, 104, 107, 5, 77, 73, 12, 74, 107, 5, 75, 70, 8, 107, 5, 75,
    73, 71, 9, 73, 70, 8, 107, 5, 75, 73, 71, 9, 73, 73, 71, 9, 73, 73, 73, 71, 71, 71, 71, 9, 75, 77, 77, 75, 75, 75,
    75, 5, 71, 73, 81, 79, 79, 77, 109, 5, 71, 73, 73, 113, 73, 73, 73, 81, 113, 7, 81, 79, 75, 7, 71, 3, 71, 113, 71, 75,
    7, 71, 71, 73, 71, 77, 111, 15, 111, 7, 78, 76, 103, 75, 7, 71, 111, 71, 76, 76, 107, 7, 76, 74, 73, 5, 69, 107, 11, 77,
    77, 109, 5, 81, 81, 77, 7, 71, 111, 71, 77, 111, 15, 111, 7, 78, 76, 103, 75, 7, 71, 111, 71, 76, 76, 107, 7, 76, 74, 73,
    5, 69, 107, 11, 77, 77, 109, 5, 81, 79, 75, 14, 78, 107, 7, 76, 74, 73, 5, 69, 107, 11, 77, 77, 109, 5, 79, 77, 77, 73,
    5, 69, 107, 11, 77, 75, 107, 107, 5, 77, 73, 13, 77, 75, 107, 107, 5, 79, 77, 7, 71, 111, 71, 76, 76, 107, 17, 71, 71, 71,
    73, 71, 76, 76, 107, 7, 76, 74, 73, 5, 69, 107, 11, 77, 77, 109, 5, 81, 79, 75, 14, 78, 107, 7, 76, 74, 73, 5, 69, 107,
    11, 77, 77, 109, 5, 79, 77, 77, 73, 5, 69, 107, 11, 77, 75, 107, 107, 5, 77, 73, 13, 77, 75, 107, 107, 5, 79, 75, 14, 103,
    74, 103, 77, 73, 5, 69, 107, 11, 77, 75, 107, 107, 9, 5, 74, 72, 71, 9, 75, 75, 73, 5, 69, 107, 10, 71, 69, 72, 73, 73,
    105, 7, 107, 107, 105, 105, 104, 104, 107, 9, 5, 74, 72, 70, 8, 107, 5, 75, 70, 8, 107, 5, 75, 73, 71, 9, 73, 73, 71, 9,
    107, 109, 5, 103, 81, 73, 73, 81, 113, 7, 81, 79, 75, 7, 71, 71, 109, 5, 78, 76, 103, 75, 7, 71, 71, 109, 5, 76, 74, 101,
    77, 73, 5, 69, 107, 5, 78, 76, 103, 75, 7, 71, 71, 109, 5, 76, 74, 101, 77, 73, 5, 69, 107, 5, 76, 74, 101, 77, 73, 5,
    69, 107, 11, 77, 75, 107, 107, 5, 77, 73, 12, 74, 107, 5, 75, 73, 71, 9, 75, 75, 75, 73, 72, 72, 73, 9, 7, 71, 71, 71,
    77, 109, 5, 76, 74, 101, 73, 13, 77, 75, 75, 73, 5, 69, 107, 5, 76, 74, 101, 77, 73, 5, 69, 107, 11, 77, 75, 107, 107, 5,
    77, 73, 12, 74, 107, 5, 75, 73, 71, 9, 75, 75, 75, 73, 72, 72, 73, 5, 69, 107, 5, 78, 76, 103, 75, 7, 71, 71, 109, 5,
    76, 74, 101, 77, 73, 5, 69, 107, 5, 76, 74, 101, 77, 73, 5, 69, 107, 11, 77, 75, 107, 107, 5, 77, 73, 12, 74, 107, 5, 75,
    73, 71, 9, 75, 75, 75, 73, 72, 72, 73, 9, 7, 69, 69, 69, 75, 107, 10, 71, 69, 72, 73, 73, 105, 7, 105, 105, 9, 75, 77,
    77, 77, 75, 75, 75, 75, 5, 69, 69, 77, 75, 107, 10, 69, 69, 71, 69, 69, 69, 72, 73, 73, 105, 7, 107, 107, 105, 105, 104, 104,
    107, 5, 77, 73, 12, 74, 107, 5, 75, 70, 8, 107, 5, 75, 73, 71, 9, 73, 70, 8, 107, 5, 75, 73, 71, 9, 73, 73, 71, 9,
    73, 73, 73, 71, 71, 71, 71, 9, 75, 77, 77, 75, 75, 75, 75, 5, 79, 113, 7, 79, 75, 7, 71, 71, 109, 5, 78, 76, 103, 75,
    7, 71, 71, 109, 5, 76, 74, 101, 77, 73, 5, 69, 107, 5, 78, 76, 103, 75, 7, 71, 71, 109, 5, 76, 74, 101, 77, 73, 5, 69,
    107, 5, 76, 74, 101, 77, 73, 5, 69, 107, 11, 77, 75, 107, 107, 5, 77, 73, 12, 74, 107, 5, 75, 73, 71, 9, 75, 75, 75, 73,
    72, 72, 73, 9, 7, 71, 71, 71, 77, 109, 5, 76, 74, 101, 73, 13, 77, 75, 75, 73, 5, 69, 107, 5, 76, 74, 101, 77, 73, 5,
    69, 107, 11, 77, 75, 107, 107, 5, 77, 73, 12, 74, 107, 5, 75, 73, 71, 9, 75, 75, 75, 73, 72, 72, 73, 5, 69, 107, 5, 78,
    76, 103, 75, 7, 71, 71, 109, 5, 76, 74, 101, 77, 73, 5, 69, 107, 5, 76, 74, 101, 77, 73, 5, 69, 107, 11, 77, 75, 107, 107,
    5, 77, 73, 12, 74, 107, 5, 75, 73, 71, 9, 75, 75, 75, 73, 72, 72, 73, 9, 7, 69, 69, 69, 75, 107, 10, 71, 69, 72, 73,
    73, 105, 7, 105, 105, 9, 75, 77, 77, 77, 75, 75, 75, 75, 5, 69, 69, 77, 75, 107, 10, 69, 69, 71, 69, 69, 69, 72, 73, 73,
    105, 7, 107, 107, 105, 105, 104, 104, 107, 5, 77, 73, 12, 74, 107, 5, 75, 70, 8, 107, 5, 75, 73, 71, 9, 73, 70, 8, 107, 5,
    75, 73, 71, 9, 73, 73, 71, 9, 73, 73, 73, 71, 71, 71, 71, 9, 75, 77, 77, 75, 75, 75, 75, 5, 71, 71, 79, 77, 108, 12,
    76, 14, 99, 66, 3, 98, 99, 105, 7, 11, 3, 99, 99, 99, 105, 71, 11, 75, 71, 3, 107, 107, 11, 105, 105, 73, 71, 3, 109, 109,
    12, 71, 69, 72, 105, 105, 3, 99, 99, 99, 99, 105, 71, 9, 71, 11, 71, 11, 105, 105, 73, 71, 3, 107, 107, 11, 105, 105, 73, 71,
    3, 109, 109, 12, 71, 69, 72, 105, 105, 3, 99, 99, 99, 99, 105, 71, 9, 71, 11, 71, 11, 105, 105, 73, 71, 3, 107, 107, 11, 105,
    105, 73, 71, 3, 107, 107, 11, 105, 105, 105, 105, 3, 99, 99, 99, 99, 105, 103, 103, 69, 7, 73, 73, 73, 71, 70, 70, 71, 3, 107,
    107, 11, 105, 105, 73, 71, 3, 109, 109, 12, 71, 69, 72, 105, 105, 3, 99, 99, 99, 99, 105, 71, 9, 71, 11, 71, 11, 105, 105, 73,
    71, 3, 107, 107, 11, 105, 105, 73, 71, 3, 107, 107, 11, 105, 105, 105, 105, 3, 99, 99, 99, 99, 105, 103, 103, 69, 7, 73, 73, 73,
    71, 70, 70, 71, 3, 107, 107, 11, 105, 105, 73, 71, 3, 107, 107, 11, 105, 105, 105, 105, 3, 99, 99, 99, 99, 105, 103, 103, 69, 7,
    73, 73, 73, 71, 70, 70, 71, 3, 107, 107, 10, 69, 67, 70, 103, 102, 4, 71, 3, 105, 9, 103, 103, 103, 102, 4, 71, 3, 105, 9,
    103, 103, 103, 103, 7, 103, 103, 103, 101, 101, 101, 101, 103, 5, 73, 75, 75, 73, 73, 73, 73, 3, 109, 111, 109, 109, 109, 109, 1, 71,
    73, 9, 73, 115, 73, 73, 73, 75, 73, 79, 77, 17, 77, 9, 73, 75, 73, 79, 76, 16, 107, 107, 80, 75, 80, 75, 115, 9, 83, 81,
    76, 9, 112, 7, 74, 11, 7, 71, 74, 10, 15, 103, 71, 71, 71, 106, 71, 109, 5, 103, 76, 71, 71, 3, 71, 111, 76, 71, 75, 7,
    71, 111, 71, 77, 111, 15, 111, 7, 78, 76, 103, 75, 7, 71, 111, 71, 76, 76, 107, 7, 76, 74, 73, 5, 69, 107, 11, 77, 77, 109,
    5, 113, 17, 71, 71, 71, 73, 71, 77, 111, 15, 111, 7, 78, 76, 103, 75, 7, 71, 111, 71, 76, 76, 107, 7, 76, 74, 73, 5, 69,
    107, 11, 77, 77, 109, 5, 81, 81, 77, 7, 71, 111, 71, 77, 111, 15, 111, 7, 78, 76, 103, 75, 7, 71, 111, 71, 76, 76, 107, 7,
    76, 74, 73, 5, 69, 107, 11, 77, 77, 109, 5, 81, 79, 75, 14, 78, 107, 7, 76, 74, 73, 5, 69, 107, 11, 77, 77, 109, 5, 79,
    77, 77, 73, 5, 69, 107, 11, 77, 75, 107, 107, 5, 77, 73, 13, 77, 75, 107, 107, 5, 111, 15, 7, 78, 76, 103, 75, 15, 113, 7,
    71, 71, 71, 111, 71, 76, 76, 107, 7, 76, 74, 73, 5, 69, 107, 11, 77, 77, 109, 5, 81, 79, 75, 14, 78, 107, 7, 76, 74, 73,
    5, 69, 107, 11, 77, 77, 109, 5, 79, 77, 77, 73, 5, 69, 107, 11, 77, 75, 107, 107, 5, 77, 73, 13, 77, 75, 107, 107, 5, 79,
    77, 7, 71, 111, 71, 76, 76, 107, 17, 71, 71, 71, 73, 71, 76, 76, 107, 7, 76, 74, 73, 5, 69, 107, 11, 77, 77, 109, 5, 81,
    79, 75, 14, 78, 107, 7, 76, 74, 73, 5, 69, 107, 11, 77, 77, 109, 5, 79, 77, 77, 73, 5, 69, 107, 11, 77, 75, 107, 107, 5,
    77, 73, 13, 77, 75, 107, 107, 5, 79, 75, 14, 103, 74, 103, 77, 73, 5, 69, 107, 11, 77, 75, 107, 107, 9, 5, 74, 72, 71, 9,
    75, 75, 73, 5, 69, 107, 10, 71, 69, 72, 73, 73, 105, 7, 107, 107, 105, 105, 104, 104, 107, 9, 5, 74, 72, 70, 8, 107, 5, 75,
    70, 8, 107, 5, 75, 73, 71, 9, 73, 73, 71, 9, 107, 109, 13, 111, 15, 7, 78, 76, 103, 75, 7, 71, 111, 71, 76, 76, 107, 17,
    71, 71, 71, 73, 71, 76, 76, 107, 7, 76, 74, 73, 5, 69, 107, 11, 77, 77, 109, 5, 81, 79, 75, 14, 78, 107, 7, 76, 74, 73,
    5, 69, 107, 11, 77, 77, 109, 5, 79, 77, 77, 73, 5, 69, 107, 11, 77, 75, 107, 107, 5, 77, 73, 13, 77, 75, 107, 107, 5, 79,
    75, 14, 103, 74, 103, 77, 73, 5, 69, 107, 11, 77, 75, 107, 107, 9, 5, 74, 72, 71, 9, 75, 75, 73, 5, 69, 107, 10, 71, 69,
    72, 73, 73, 105, 7, 107, 107, 105, 105, 104, 104, 107, 9, 5, 74, 72, 70, 8, 107, 5, 75, 70, 8, 107, 5, 75, 73, 71, 9, 73,
    73, 71, 9, 107, 109, 5, 103, 81, 73, 73, 73, 111, 5, 71, 113, 71, 71, 71, 73, 71, 77, 111, 15, 113, 7, 81, 79, 75, 11, 14,
    76, 103, 75, 7, 71, 3, 71, 113, 71, 75, 7, 71, 71, 73, 71, 77, 111, 15, 111, 7, 78, 76, 103, 75, 7, 71, 111, 71, 76, 76,
    107, 7, 76, 74, 73, 5, 69, 107, 11, 77, 77, 109, 5, 81, 81, 77, 7, 71, 111, 71, 77, 111, 15, 111, 7, 78, 76, 103, 75, 7,
    71, 111, 71, 76, 76, 107, 7, 76, 74, 73, 5, 69, 107, 11, 77, 77, 109, 5, 81, 79, 75, 14, 78, 107, 7, 76, 74, 73, 5, 69,
    107, 11, 77, 77, 109, 5, 79, 77, 77, 73, 5, 69, 107, 11, 77, 75, 107, 107, 5, 77, 73, 13, 77, 75, 107, 107, 5, 79, 77, 7,
    71, 111, 71, 76, 76, 107, 17, 71, 71, 71, 73, 71, 76, 76, 107, 7, 76, 74, 73, 5, 69, 107, 11, 77, 77, 109, 5, 81, 79, 75,
    14, 78, 107, 7, 76, 74, 73, 5, 69, 107, 11, 77, 77, 109, 5, 79, 77, 77, 73, 5, 69, 107, 11, 77, 75, 107, 107, 5, 77, 73,
    13, 77, 75, 107, 107, 5, 79, 75, 14, 103, 74, 103, 77, 73, 5, 69, 107, 11, 77, 75, 107, 107, 9, 5, 74, 72, 71, 9, 75, 75,
    73, 5, 69, 107, 10, 71, 69, 72, 73, 73, 105, 7, 107, 107, 105, 105, 104, 104, 107, 9, 5, 74, 72, 70, 8, 107, 5, 75, 70, 8,
    107, 5, 75, 73, 71, 9, 73, 73, 71, 9, 107, 109, 5, 103, 81, 73, 73, 81, 113, 7, 81, 79, 75, 7, 71, 71, 109, 5, 78, 76,
    103, 75, 7, 71, 71, 109, 5, 76, 74, 101, 77, 73, 5, 69, 107, 5, 78, 76, 103, 75, 7, 71, 71, 109, 5, 76, 74, 101, 77, 73,
    5, 69, 107, 5, 76, 74, 101, 77, 73, 5, 69, 107, 11, 77, 75, 107, 107, 5, 77, 73, 12, 74, 107, 5, 75, 73, 71, 9, 75, 75,
    75, 73, 72, 72, 73, 9, 7, 71, 71, 71, 77, 109, 5, 76, 74, 101, 73, 13, 77, 75, 75, 73, 5, 69, 107, 5, 76, 74, 101, 77,
    73, 5, 69, 107, 11, 77, 75, 107, 107, 5, 77, 73, 12, 74, 107, 5, 75, 73, 71, 9, 75, 75, 75, 73, 72, 72, 73, 5, 69, 107,
    5, 78, 76, 103, 75, 7, 71, 71, 109, 5, 76, 74, 101, 77, 73, 5, 69, 107, 5, 76, 74, 101, 77, 73, 5, 69, 107, 11, 77, 75,
    107, 107, 5, 77, 73, 12, 74, 107, 5, 75, 73, 71, 9, 75, 75, 75, 73, 72, 72, 73, 9, 7, 69, 69, 69, 75, 107, 10, 71, 69,
    72, 73, 73, 105, 7, 105, 105, 9, 75, 77, 77, 77, 75, 75, 75, 75, 5, 69, 69, 77, 75, 107, 10, 69, 69, 71, 69, 69, 69, 72,
    73, 73, 105, 7, 107, 107, 105, 105, 104, 104, 107, 5, 77, 73, 12, 74, 107, 5, 75, 70, 8, 107, 5, 75, 73, 71, 9, 73, 70, 8,
    107, 5, 75, 73, 71, 9, 73, 73, 71, 9, 73, 73, 73, 71, 71, 71, 71, 9, 75, 77, 77, 75, 75, 75, 75, 5, 71, 73, 81, 79,
    79, 77, 109, 5, 71, 73, 73, 113, 73, 73, 73, 81, 113, 7, 81, 79, 75, 7, 71, 3, 71, 113, 71, 75, 7, 71, 71, 73, 71, 77,
    111, 15, 111, 7, 78, 76, 103, 75, 7, 71, 111, 71, 76, 76, 107, 7, 76, 74, 73, 5, 69, 107, 11, 77, 77, 109, 5, 81, 81, 77,
    7, 71, 111, 71, 77, 111, 15, 111, 7, 78, 76, 103, 75, 7, 71, 111, 71, 76, 76, 107, 7, 76, 74, 73, 5, 69, 107, 11, 77, 77,
    109, 5, 81, 79, 75, 14, 78, 107, 7, 76, 74, 73, 5, 69, 107, 11, 77, 77, 109, 5, 79, 77, 77, 73, 5, 69, 107, 11, 77, 75,
    107, 107, 5, 77, 73, 13, 77, 75, 107, 107, 5, 79, 77, 7, 71, 111, 71, 76, 76, 107, 17, 71, 71, 71, 73, 71, 76, 76, 107, 7,
    76, 74, 73, 5, 69, 107, 11, 77, 77, 109, 5, 81, 79, 75, 14, 78, 107, 7, 76, 74, 73, 5, 69, 107, 11, 77, 77, 109, 5, 79,
    77, 77, 73, 5, 69, 107, 11, 77, 75, 107, 107, 5, 77, 73, 13, 77, 75, 107, 107, 5, 79, 75, 14, 103, 74, 103, 77, 73, 5, 69,
    107, 11, 77, 75, 107, 107, 9, 5, 74, 72, 71, 9, 75, 75, 73, 5, 69, 107, 10, 71, 69, 72, 73, 73, 105, 7, 107, 107, 105, 105,
    104, 104, 107, 9, 5, 74, 72, 70, 8, 107, 5, 75, 70, 8, 107, 5, 75, 73, 71, 9, 73, 73, 71, 9, 107, 109, 5, 103, 81, 73,
    73, 81, 113, 7, 81, 79, 75, 7, 71, 71, 109, 5, 78, 76, 103, 75, 7, 71, 71, 109, 5, 76, 74, 101, 77, 73, 5, 69, 107, 5,
    78, 76, 103, 75, 7, 71, 71, 109, 5, 76, 74, 101, 77, 73, 5, 69, 107, 5, 76, 74, 101, 77, 73, 5, 69, 107, 11, 77, 75, 107,
    107, 5, 77, 73, 12, 74, 107, 5, 75, 73, 71, 9, 75, 75, 75, 73, 72, 72, 73, 9, 7, 71, 71, 71, 77, 109, 5, 76, 74, 101,
    73, 13, 77, 75, 75, 73, 5, 69, 107, 5, 76, 74, 101, 77, 73, 5, 69, 107, 11, 77, 75, 107, 107, 5, 77, 73, 12, 74, 107, 5,
    75, 73, 71, 9, 75, 75, 75, 73, 72, 72, 73, 5, 69, 107, 5, 78, 76, 103, 75, 7, 71, 71, 109, 5, 76, 74, 101, 77, 73, 5,
    69, 107, 5, 76, 74, 101, 77, 73, 5, 69, 107, 11, 77, 75, 107, 107, 5, 77, 73, 12, 74, 107, 5, 75, 73, 71, 9, 75, 75, 75,
    73, 72, 72, 73, 9, 7, 69, 69, 69, 75, 107, 10, 71, 69, 72, 73, 73, 105, 7, 105, 105, 9, 75, 77, 77, 77, 75, 75, 75, 75,
    5, 69, 69, 77, 75, 107, 10, 69, 69, 71, 69, 69, 69, 72, 73, 73, 105, 7, 107, 107, 105, 105, 104, 104, 107, 5, 77, 73, 12, 74,
    107, 5, 75, 70, 8, 107, 5, 75, 73, 71, 9, 73, 70, 8, 107, 5, 75, 73, 71, 9, 73, 73, 71, 9, 73, 73, 73, 71, 71, 71,
    71, 9, 75, 77, 77, 75, 75, 75, 75, 5, 79, 113, 7, 79, 75, 7, 71, 71, 109, 5, 78, 76, 103, 75, 7, 71, 71, 109, 5, 76,
    74, 101, 77, 73, 5, 69, 107, 5, 78, 76, 103, 75, 7, 71, 71, 109, 5, 76, 74, 101, 77, 73, 5, 69, 107, 5, 76, 74, 101, 77,
    73, 5, 69, 107, 11, 77, 75, 107, 107, 5, 77, 73, 12, 74, 107, 5, 75, 73, 71, 9, 75, 75, 75, 73, 72, 72, 73, 9, 7, 71,
    71, 71, 77, 109, 5, 76, 74, 101, 73, 13, 77, 75, 75, 73, 5, 69, 107, 5, 76, 74, 101, 77, 73, 5, 69, 107, 11, 77, 75, 107,
    107, 5, 77, 73, 12, 74, 107, 5, 75, 73, 71, 9, 75, 75, 75, 73, 72, 72, 73, 5, 69, 107, 5, 78, 76, 103, 75, 7, 71, 71,
    109, 5, 76, 74, 101, 77, 73, 5, 69, 107, 5, 76, 74, 101, 77, 73, 5, 69, 107, 11, 77, 75, 107, 107, 5, 77, 73, 12, 74, 107,
    5, 75, 73, 71, 9, 75, 75, 75, 73, 72, 72, 73, 9, 7, 69, 69, 69, 75, 107, 10, 71, 69, 72, 73, 73, 105, 7, 105, 105, 9,
    75, 77, 77, 77, 75, 75, 75, 75, 5, 69, 69, 77, 75, 107, 10, 69, 69, 71, 69, 69, 69, 72, 73, 73, 105, 7, 107, 107, 105, 105,
    104, 104, 107, 5, 77, 73, 12, 74, 107, 5, 75, 70, 8, 107, 5, 75, 73, 71, 9, 73, 70, 8, 107, 5, 75, 73, 71, 9, 73, 73,
    71, 9, 73, 73, 73, 71, 71, 71, 71, 9, 75, 77, 77, 75, 75, 75, 75, 5, 71, 71, 79, 77, 108, 12, 76, 14, 99, 66, 3, 98,
    99, 105, 7, 11, 3, 99, 99, 99, 105, 71, 11, 75, 71, 3, 107, 107, 11, 105, 105, 73, 71, 3, 109, 109, 12, 71, 69, 72, 105, 105,
    3, 99, 99, 99, 99, 105, 71, 9, 71, 11, 71, 11, 105, 105, 73, 71, 3, 107, 107, 11, 105, 105, 73, 71, 3, 109, 109, 12, 71, 69,
    72, 105, 105, 3, 99, 99, 99, 99, 105, 71, 9, 71, 11, 71, 11, 105, 105, 73, 71, 3, 107, 107, 11, 105, 105, 73, 71, 3, 107, 107,
    11, 105, 105, 105, 105, 3, 99, 99, 99, 99, 105, 103, 103, 69, 7, 73, 73, 73, 71, 70, 70, 71, 3, 107, 107, 11, 105, 105, 73, 71,
    3, 109, 109, 12, 71, 69, 72, 105, 105, 3, 99, 99, 99, 99, 105, 71, 9, 71, 11, 71, 11, 105, 105, 73, 71, 3, 107, 107, 11, 105,
    105, 73, 71, 3, 107, 107, 11, 105, 105, 105, 105, 3, 99, 99, 99, 99, 105, 103, 103, 69, 7, 73, 73, 73, 71, 70, 70, 71, 3, 107,
    107, 11, 105, 105, 73, 71, 3, 107, 107, 11, 105, 105, 105, 105, 3, 99, 99, 99, 99, 105, 103, 103, 69, 7, 73, 73, 73, 71, 70, 70,
    71, 3, 107, 107, 10, 69, 67, 70, 103, 102, 4, 71, 3, 105, 9, 103, 103, 103, 102, 4, 71, 3, 105, 9, 103, 103, 103, 103, 7, 103,
    103, 103, 101, 101, 101, 101, 103, 5, 73, 75, 75, 73, 73, 73, 73, 3, 109, 111, 109, 109, 109, 109, 1, 71, 71, 7, 71, 113, 71, 71,
    71, 71, 109, 5, 78, 76, 103, 75, 7, 71, 3, 71, 113, 71, 75, 7, 71, 71, 73, 71, 77, 111, 15, 111, 7, 78, 76, 103, 75, 7,
    71, 111, 71, 76, 76, 107, 7, 76, 74, 73, 5, 69, 107, 11, 77, 77, 109, 5, 81, 81, 77, 7, 71, 111, 71, 77, 111, 15, 111, 7,
    78, 76, 103, 75, 7, 71, 111, 71, 76, 76, 107, 7, 76, 74, 73, 5, 69, 107, 11, 77, 77, 109, 5, 81, 79, 75, 14, 78, 107, 7,
    76, 74, 73, 5, 69, 107, 11, 77, 77, 109, 5, 79, 77, 77, 73, 5, 69, 107, 11, 77, 75, 107, 107, 5, 77, 73, 13, 77, 75, 107,
    107, 5, 79, 77, 7, 71, 111, 71, 76, 76, 107, 17, 71, 71, 71, 73, 71, 76, 76, 107, 7, 76, 74, 73, 5, 69, 107, 11, 77, 77,
    109, 5, 81, 79, 75, 14, 78, 107, 7, 76, 74, 73, 5, 69, 107, 11, 77, 77, 109, 5, 79, 77, 77, 73, 5, 69, 107, 11, 77, 75,
    107, 107, 5, 77, 73, 13, 77, 75, 107, 107, 5, 79, 75, 14, 103, 74, 103, 77, 73, 5, 69, 107, 11, 77, 75, 107, 107, 9, 5, 74,
    72, 71, 9, 75, 75, 73, 5, 69, 107, 10, 71, 69, 72, 73, 73, 105, 7, 107, 107, 105, 105, 104, 104, 107, 9, 5, 74, 72, 70, 8,
    107, 5, 75, 70, 8, 107, 5, 75, 73, 71, 9, 73, 73, 71, 9, 107, 109, 5, 103, 81, 73, 73, 81, 113, 7, 81, 79, 75, 7, 71,
    71, 109, 5, 78, 76, 103, 75, 7, 71, 71, 109, 5, 76, 74, 101, 77, 73, 5, 69, 107, 5, 78, 76, 103, 75, 7, 71, 71, 109, 5,
    76, 74, 101, 77, 73, 5, 69, 107, 5, 76, 74, 101, 77, 73, 5, 69, 107, 11, 77, 75, 107, 107, 5, 77, 73, 12, 74, 107, 5, 75,
    73, 71, 9, 75, 75, 75, 73, 72, 72, 73, 9, 7, 71, 71, 71, 77, 109, 5, 76, 74, 101, 73, 13, 77, 75, 75, 73, 5, 69, 107,
    5, 76, 74, 101, 77, 73, 5, 69, 107, 11, 77, 75, 107, 107, 5, 77, 73, 12, 74, 107, 5, 75, 73, 71, 9, 75, 75, 75, 73, 72,
    72, 73, 5, 69, 107, 5, 78, 76, 103, 75, 7, 71, 71, 109, 5, 76, 74, 101, 77, 73, 5, 69, 107, 5, 76, 74, 101, 77, 73, 5,
    69, 107, 11, 77, 75, 107, 107, 5, 77, 73, 12, 74, 107, 5, 75, 73, 71, 9, 75, 75, 75, 73, 72, 72, 73, 9, 7, 69, 69, 69,
    75, 107, 10, 71, 69, 72, 73, 73, 105, 7, 105, 105, 9, 75, 77, 77, 77, 75, 75, 75, 75, 5, 69, 69, 77, 75, 107, 10, 69, 69,
    71, 69, 69, 69, 72, 73, 73, 105, 7, 107, 107, 105, 105, 104, 104, 107, 5, 77, 73, 12, 74, 107, 5, 75, 70, 8, 107, 5, 75, 73,
    71, 9, 73, 70, 8, 107, 5, 75, 73, 71, 9, 73, 73, 71, 9, 73, 73, 73, 71, 71, 71, 71, 9, 75, 77, 77, 75, 75, 75, 75,
    5, 79, 113, 7, 79, 75, 7, 71, 71, 109, 5, 78, 76, 103, 75, 7, 71, 71, 109, 5, 76, 74, 101, 77, 73, 5, 69, 107, 5, 78,
    76, 103, 75, 7, 71, 71, 109, 5, 76, 74, 101, 77, 73, 5, 69, 107, 5, 76, 74, 101, 77, 73, 5, 69, 107, 11, 77, 75, 107, 107,
    5, 77, 73, 12, 74, 107, 5, 75, 73, 71, 9, 75, 75, 75, 73, 72, 72, 73, 9, 7, 71, 71, 71, 77, 109, 5, 76, 74, 101, 73,
    13, 77, 75, 75, 73, 5, 69, 107, 5, 76, 74, 101, 77, 73, 5, 69, 107, 11, 77, 75, 107, 107, 5, 77, 73, 12, 74, 107, 5, 75,
    73, 71, 9, 75, 75, 75, 73, 72, 72, 73, 5, 69, 107, 5, 78, 76, 103, 75, 7, 71, 71, 109, 5, 76, 74, 101, 77, 73, 5, 69,
    107, 5, 76, 74, 101, 77, 73, 5, 69, 107, 11, 77, 75, 107, 107, 5, 77, 73, 12, 74, 107, 5, 75, 73, 71, 9, 75, 75, 75, 73,
    72, 72, 73, 9, 7, 69, 69, 69, 75, 107, 10, 71, 69, 72, 73, 73, 105, 7, 105, 105, 9, 75, 77, 77, 77, 75, 75, 75, 75, 5,
    69, 69, 77, 75, 107, 10, 69, 69, 71, 69, 69, 69, 72, 73, 73, 105, 7, 107, 107, 105, 105, 104, 104, 107, 5, 77, 73, 12, 74, 107,
    5, 75, 70, 8, 107, 5, 75, 73, 71, 9, 73, 70, 8, 107, 5, 75, 73, 71, 9, 73, 73, 71, 9, 73, 73, 73, 71, 71, 71, 71,
    9, 75, 77, 77, 75, 75, 75, 75, 5, 71, 71, 79, 77, 108, 12, 76, 14, 99, 66, 3, 98, 99, 105, 7, 11, 3, 99, 99, 99, 105,
    71, 11, 75, 71, 3, 107, 107, 11, 105, 105, 73, 71, 3, 109, 109, 12, 71, 69, 72, 105, 105, 3, 99, 99, 99, 99, 105, 71, 9, 71,
    11, 71, 11, 105, 105, 73, 71, 3, 107, 107, 11, 105, 105, 73, 71, 3, 109, 109, 12, 71, 69, 72, 105, 105, 3, 99, 99, 99, 99, 105,
    71, 9, 71, 11, 71, 11, 105, 105, 73, 71, 3, 107, 107, 11, 105, 105, 73, 71, 3, 107, 107, 11, 105, 105, 105, 105, 3, 99, 99, 99,
    99, 105, 103, 103, 69, 7, 73, 73, 73, 71, 70, 70, 71, 3, 107, 107, 11, 105, 105, 73, 71, 3, 109, 109, 12, 71, 69, 72, 105, 105,
    3, 99, 99, 99, 99, 105, 71, 9, 71, 11, 71, 11, 105, 105, 73, 71, 3, 107, 107, 11, 105, 105, 73, 71, 3, 107, 107, 11, 105, 105,
    105, 105, 3, 99, 99, 99, 99, 105, 103, 103, 69, 7, 73, 73, 73, 71, 70, 70, 71, 3, 107, 107, 11, 105, 105, 73, 71, 3, 107, 107,
    11, 105, 105, 105, 105, 3, 99, 99, 99, 99, 105, 103, 103, 69, 7, 73, 73, 73, 71, 70, 70, 71, 3, 107, 107, 10, 69, 67, 70, 103,
    102, 4, 71, 3, 105, 9, 103, 103, 103, 102, 4, 71, 3, 105, 9, 103, 103, 103, 103, 7, 103, 103, 103, 101, 101, 101, 101, 103, 5, 73,
    75, 75, 73, 73, 73, 73, 3, 109, 111, 109, 109, 109, 109, 1, 99, 67, 3, 101, 101, 101, 101, 101, 101, 109, 109, 5, 101, 101, 106, 106,
    69, 15, 103, 103, 103, 103, 103, 108, 71, 108, 71, 111, 5, 101, 101, 109, 109, 75, 5, 101, 101, 101, 101, 109, 108, 108, 69, 5, 107, 3,
    99, 99, 99, 99, 99, 99, 99, 105, 105, 105, 73, 71, 7, 5, 107, 3, 101, 101, 101, 106, 106, 69, 15, 101, 101, 101, 101, 101, 106, 106,
    69, 5, 107, 3, 99, 99, 99, 99, 99, 99, 99, 105, 105, 105, 73, 71, 7, 5, 107, 3, 99, 99, 99, 99, 99, 99, 99, 99, 99, 105,
    71, 9, 71, 11, 71, 11, 105, 105, 73, 71, 3, 107, 107, 11, 105, 105, 73, 71, 3, 109, 111, 5, 101, 101, 109, 109, 75, 5, 101, 101,
    101, 101, 109, 108, 108, 69, 5, 107, 3, 99, 99, 99, 99, 99, 99, 99, 105, 105, 105, 73, 71, 7, 5, 107, 3, 99, 99, 99, 99, 99,
    99, 99, 99, 99, 105, 71, 9, 71, 11, 71, 11, 105, 105, 73, 71, 3, 107, 107, 11, 105, 105, 73, 71, 3, 109, 109, 12, 71, 69, 72,
    105, 105, 3, 99, 99, 99, 99, 105, 71, 9, 71, 11, 71, 11, 105, 105, 73, 71, 3, 107, 107, 11, 105, 105, 73, 71, 3, 107, 107, 11,
    105, 105, 105, 105, 3, 99, 99, 99, 99, 105, 103, 103, 69, 7, 73, 73, 73, 71, 70, 70, 71, 3, 107, 107, 11, 105, 105, 73, 71, 3,
    109, 111, 5, 101, 101, 109, 109, 75, 5, 101, 101, 101, 101, 109, 108, 108, 69, 5, 107, 3, 99, 99, 99, 99, 99, 99, 99, 105, 105, 105,
    73, 71, 7, 5, 107, 3, 99, 99, 99, 99, 99, 99, 99, 99, 99, 105, 71, 9, 71, 11, 71, 11, 105, 105, 73, 71, 3, 107, 107, 11,
    105, 105, 73, 71, 3, 109, 109, 12, 71, 69, 72, 105, 105, 3, 99, 99, 99, 99, 105, 71, 9, 71, 11, 71, 11, 105, 105, 73, 71, 3,
    107, 107, 11, 105, 105, 73, 71, 3, 107, 107, 11, 105, 105, 105, 105, 3, 99, 99, 99, 99, 105, 103, 103, 69, 7, 73, 73, 73, 71, 70,
    70, 71, 3, 107, 107, 11, 105, 105, 73, 71, 3, 109, 109, 12, 71, 69, 72, 105, 105, 3, 99, 99, 99, 99, 105, 71, 9, 71, 11, 71,
    11, 105, 105, 73, 71, 3, 107, 107, 11, 105, 105, 73, 71, 3, 107, 107, 11, 105, 105, 105, 105, 3, 99, 99, 99, 99, 105, 103, 103, 69,
    7, 73, 73, 73, 71, 70, 70, 71, 3, 107, 107, 11, 105, 105, 73, 71, 3, 107, 107, 11, 105, 105, 105, 105, 3, 99, 99, 99, 99, 105,
    103, 103, 69, 7, 73, 73, 73, 71, 70, 70, 71, 3, 107, 107, 10, 69, 67, 70, 103, 102, 4, 71, 3, 105, 9, 103, 103, 103, 102, 4,
    71, 3, 105, 9, 103, 103, 103, 103, 7, 103, 103, 103, 101, 101, 101, 101, 103, 5, 73, 75, 75, 73, 73, 73, 73, 3, 109, 111, 5, 101,
    101, 106, 106, 69, 15, 101, 101, 101, 101, 101, 106, 106, 69, 5, 107, 3, 99, 99, 99, 99, 99, 99, 99, 105, 105, 105, 73, 71, 7, 5,
    107, 3, 99, 99, 99, 99, 99, 99, 99, 99, 99, 105, 71, 9, 71, 11, 71, 11, 105, 105, 73, 71, 3, 107, 107, 11, 105, 105, 73, 71,
    3, 109, 109, 12, 71, 69, 72, 105, 105, 3, 99, 99, 99, 99, 105, 71, 9, 71, 11, 71, 11, 105, 105, 73, 71, 3, 107, 107, 11, 105,
    105, 73, 71, 3, 107, 107, 11, 105, 105, 105, 105, 3, 99, 99, 99, 99, 105, 103, 103, 69, 7, 73, 73, 73, 71, 70, 70, 71, 3, 107,
    107, 11, 105, 105, 73, 71, 3, 109, 109, 12, 71, 69, 72, 105, 105, 3, 99, 99, 99, 99, 105, 71, 9, 71, 11, 71, 11, 105, 105, 73,
    71, 3, 107, 107, 11, 105, 105, 73, 71, 3, 107, 107, 11, 105, 105, 105, 105, 3, 99, 99, 99, 99, 105, 103, 103, 69, 7, 73, 73, 73,
    71, 70, 70, 71, 3, 107, 107, 11, 105, 105, 73, 71, 3, 107, 107, 11, 105, 105, 105, 105, 3, 99, 99, 99, 99, 105, 103, 103, 69, 7,
    73, 73, 73, 71, 70, 70, 71, 3, 107, 107, 10, 69, 67, 70, 103, 102, 4, 71, 3, 105, 9, 103, 103, 103, 102, 4, 71, 3, 105, 9,
    103, 103, 103, 103, 7, 103, 103, 103, 101, 101, 101, 101, 103, 5, 73, 75, 75, 73, 73, 73, 73, 3, 109, 3, 99, 99, 99, 99, 99, 99,
    99, 99, 99, 105, 71, 9, 71, 11, 71, 11, 105, 105, 73, 71, 3, 107, 107, 11, 105, 105, 73, 71, 3, 107, 107, 11, 105, 105, 105, 105,
    3, 99, 99, 99, 99, 105, 103, 103, 69, 7, 73, 73, 73, 71, 70, 70, 71, 3, 107, 107, 11, 105, 105, 73, 71, 3, 107, 107, 11, 105,
    105, 105, 105, 3, 99, 99, 99, 99, 105, 103, 103, 69, 7, 73, 73, 73, 71, 70, 70, 71, 3, 107, 107, 10, 69, 67, 70, 103, 102, 4,
    71, 3, 105, 9, 103, 103, 103, 102, 4, 71, 3, 105, 9, 103, 103, 103, 103, 7, 103, 103, 103, 101, 101, 101, 101, 103, 5, 73, 75, 75,
    73, 73, 73, 73, 3, 107, 107, 105, 105, 105, 105, 3, 99, 99, 99, 99, 105, 103, 103, 69, 7, 73, 73, 73, 71, 70, 70, 71, 3, 107,
    107, 10, 69, 67, 70, 103, 102, 4, 71, 3, 105, 9, 103, 103, 103, 102, 4, 71, 3, 105, 9, 103, 103, 103, 103, 7, 103, 103, 103, 101,
    101, 100, 100, 102, 4, 71, 3, 107, 10, 69, 67, 70, 103, 102, 4, 71, 3, 105, 9, 103, 103, 103, 102, 4, 71, 3, 105, 9, 103, 103,
    103, 103, 7, 103, 103, 103, 101, 101, 100, 100, 102, 4, 71, 3, 105, 6, 67, 100, 5, 69, 100, 2, 71, 1, 71, 69, 101, 3, 101, 100,
    2, 71, 1, 71, 69, 101, 3, 101, 101, 5, 69, 101, 101, 99, 99, 99, 99, 101, 3, 71, 73, 1, 67, 109, 103, 1, 71, 73, 75, 81,
    7, 69, 69, 69, 71, 69, 71, 73, 115, 73, 81, 115, 19, 9, 73, 79, 9, 73, 73, 73, 113, 73, 79, 113, 17, 115, 7, 73, 9, 73,
    9, 73, 115, 73, 73, 73, 75, 73, 79, 77, 17, 79, 9, 73, 113, 73, 79, 113, 17, 113, 9, 80, 78, 105, 77, 9, 75, 115, 75, 75,
    75, 77, 75, 81, 115, 9, 73, 73, 73, 113, 73, 79, 113, 17, 115, 9, 83, 81, 77, 13, 16, 78, 105, 77, 9, 73, 75, 73, 79, 76,
    16, 107, 107, 80, 75, 80, 75, 115, 9, 83, 81, 76, 9, 112, 7, 74, 11, 7, 71, 74, 10, 15, 103, 71, 71, 71, 106, 71, 109, 5,
    103, 76, 71, 71, 73, 71, 71, 71, 74, 75, 107, 5, 79, 113, 7, 79, 9, 80, 78, 105, 77, 9, 73, 79, 77, 17, 79, 9, 73, 113,
    73, 79, 113, 17, 113, 9, 80, 78, 105, 77, 9, 75, 115, 75, 75, 75, 83, 115, 9, 83, 81, 76, 9, 112, 7, 74, 11, 7, 71, 74,
    10, 15, 103, 71, 71, 71, 106, 71, 109, 5, 103, 76, 71, 71, 3, 71, 111, 76, 71, 75, 7, 71, 111, 71, 77, 111, 15, 111, 7, 78,
    76, 103, 75, 7, 71, 111, 71, 76, 76, 107, 7, 76, 74, 73, 5, 69, 107, 11, 77, 77, 109, 5, 113, 17, 71, 71, 71, 73, 71, 77,
    111, 15, 111, 7, 78, 76, 103, 75, 7, 71, 111, 71, 76, 76, 107, 7, 76, 74, 73, 5, 69, 107, 11, 77, 77, 109, 5, 81, 81, 113,
    7, 79, 9, 82, 107, 75, 75, 77, 75, 75, 78, 75, 79, 9, 79, 9, 73, 73, 73, 113, 73, 79, 113, 17, 113, 9, 80, 78, 105, 77,
    9, 75, 115, 75, 75, 75, 83, 115, 9, 83, 81, 76, 9, 112, 7, 74, 11, 7, 71, 74, 10, 15, 103, 71, 71, 71, 106, 71, 109, 5,
    103, 76, 71, 71, 3, 71, 111, 76, 71, 75, 7, 71, 111, 71, 77, 111, 15, 111, 7, 78, 76, 103, 75, 7, 71, 111, 71, 76, 76, 107,
    7, 76, 74, 73, 5, 69, 107, 11, 77, 77, 109, 5, 113, 17, 71, 71, 71, 73, 71, 77, 111, 15, 111, 7, 78, 76, 103, 75, 7, 71,
    111, 71, 76, 76, 107, 7, 76, 74, 73, 5, 69, 107, 11, 77, 77, 109, 5, 81, 81, 77, 7, 71, 111, 71, 77, 111, 15, 111, 7, 78,
    76, 103, 75, 7, 71, 111, 71, 76, 76, 107, 7, 76, 74, 73, 5, 69, 107, 11, 77, 77, 109, 5, 81, 79, 75, 14, 78, 107, 7, 76,
    74, 73, 5, 69, 107, 11, 77, 77, 109, 5, 79, 77, 77, 73, 5, 69, 107, 11, 77, 75, 107, 107, 5, 77, 73, 13, 77, 75, 107, 107,
    5, 111, 15, 7, 78, 76, 103, 75, 15, 113, 7, 71, 71, 71, 111, 71, 76, 76, 107, 7, 76, 74, 73, 5, 69, 107, 11, 77, 77, 109,
    5, 81, 79, 75, 14, 78, 107, 7, 76, 74, 73, 5, 69, 107, 11, 77, 77, 109, 5, 79, 77, 77, 73, 5, 69, 107, 11, 77, 75, 107,
    107, 5, 77, 73, 13, 77, 75, 107, 107, 5, 79, 113, 7, 79, 9, 80, 78, 105, 77, 9, 73, 79, 77, 17, 79, 9, 73, 113, 73, 79,
    113, 17, 113, 9, 80, 78, 105, 77, 9, 75, 115, 75, 75, 75, 83, 115, 9, 83, 81, 76, 9, 112, 7, 74, 11, 7, 71, 74, 10, 15,
    103, 71, 71, 71, 106, 71, 109, 5, 103, 76, 71, 71, 3, 71, 111, 76, 71, 75, 7, 71, 111, 71, 77, 111, 15, 111, 7, 78, 76, 103,
    75, 7, 71, 111, 71, 76, 76, 107, 7, 76, 74, 73, 5, 69, 107, 11, 77, 77, 109, 5, 113, 17, 71, 71, 71, 73, 71, 77, 111, 15,
    111, 7, 78, 76, 103, 75, 7, 71, 111, 71, 76, 76, 107, 7, 76, 74, 73, 5, 69, 107, 11, 77, 77, 109, 5, 81, 81, 77, 7, 71,
    111, 71, 77, 111, 15, 111, 7, 78, 76, 103, 75, 7, 71, 111, 71, 76, 76, 107, 7, 76, 74, 73, 5, 69, 107, 11, 77, 77, 109, 5,
    81, 79, 75, 14, 78, 107, 7, 76, 74, 73, 5, 69, 107, 11, 77, 77, 109, 5, 79, 77, 77, 73, 5, 69, 107, 11, 77, 75, 107, 107,
    5, 77, 73, 13, 77, 75, 107, 107, 5, 111, 15, 7, 78, 76, 103, 75, 15, 113, 7, 71, 71, 71, 111, 71, 76, 76, 107, 7, 76, 74,
    73, 5, 69, 107, 11, 77, 77, 109, 5, 81, 79, 75, 14, 78, 107, 7, 76, 74, 73, 5, 69, 107, 11, 77, 77, 109, 5, 79, 77, 77,
    73, 5, 69, 107, 11, 77, 75, 107, 107, 5, 77, 73, 13, 77, 75, 107, 107, 5, 79, 77, 7, 71, 111, 71, 76, 76, 107, 17, 71, 71,
    71, 73, 71, 76, 76, 107, 7, 76, 74, 73, 5, 69, 107, 11, 77, 77, 109, 5, 81, 79, 75, 14, 78, 107, 7, 76, 74, 73, 5, 69,
    107, 11, 77, 77, 109, 5, 79, 77, 77, 73, 5, 69, 107, 11, 77, 75, 107, 107, 5, 77, 73, 13, 77, 75, 107, 107, 5, 79, 75, 14,
    103, 74, 103, 77, 73, 5, 69, 107, 11, 77, 75, 107, 107, 9, 5, 74, 72, 71, 9, 75, 75, 73, 5, 69, 107, 10, 71, 69, 72, 73,
    73, 105, 7, 107, 107, 105, 105, 104, 104, 107, 9, 5, 74, 72, 70, 8, 107, 5, 75, 70, 8, 107, 5, 75, 73, 71, 9, 73, 73, 71,
    9, 107, 109, 13, 111, 15, 7, 78, 76, 103, 75, 7, 71, 111, 71, 76, 76, 107, 17, 71, 71, 71, 73, 71, 76, 76, 107, 7, 76, 74,
    73, 5, 69, 107, 11, 77, 77, 109, 5, 81, 79, 75, 14, 78, 107, 7, 76, 74, 73, 5, 69, 107, 11, 77, 77, 109, 5, 79, 77, 77,
    73, 5, 69, 107, 11, 77, 75, 107, 107, 5, 77, 73, 13, 77, 75, 107, 107, 5, 79, 75, 14, 103, 74, 103, 77, 73, 5, 69, 107, 11,
    77, 75, 107, 107, 9, 5, 74, 72, 71, 9, 75, 75, 73, 5, 69, 107, 10, 71, 69, 72, 73, 73, 105, 7, 107, 107, 105, 105, 104, 104,
    107, 9, 5, 74, 72, 70, 8, 107, 5, 75, 70, 8, 107, 5, 75, 73, 71, 9, 73, 73, 71, 9, 107, 109, 5, 103, 81, 73, 73, 73,
    111, 5, 73, 115, 73, 73, 73, 75, 73, 79, 113, 17, 115, 9, 83, 81, 77, 13, 16, 78, 105, 77, 9, 73, 75, 73, 79, 76, 16, 107,
    107, 80, 75, 80, 75, 115, 9, 83, 81, 76, 9, 112, 7, 74, 11, 7, 71, 74, 10, 15, 103, 71, 71, 71, 106, 71, 109, 5, 103, 76,
    71, 71, 3, 71, 111, 76, 71, 75, 7, 71, 111, 71, 77, 111, 15, 111, 7, 78, 76, 103, 75, 7, 71, 111, 71, 76, 76, 107, 7, 76,
    74, 73, 5, 69, 107, 11, 77, 77, 109, 5, 113, 17, 71, 71, 71, 73, 71, 77, 111, 15, 111, 7, 78, 76, 103, 75, 7, 71, 111, 71,
    76, 76, 107, 7, 76, 74, 73, 5, 69, 107, 11, 77, 77, 109, 5, 81, 81, 77, 7, 71, 111, 71, 77, 111, 15, 111, 7, 78, 76, 103,
    75, 7, 71, 111, 71, 76, 76, 107, 7, 76, 74, 73, 5, 69, 107, 11, 77, 77, 109, 5, 81, 79, 75, 14, 78, 107, 7, 76, 74, 73,
    5, 69, 107, 11, 77, 77, 109, 5, 79, 77, 77, 73, 5, 69, 107, 11, 77, 75, 107, 107, 5, 77, 73, 13, 77, 75, 107, 107, 5, 111,
    15, 7, 78, 76, 103, 75, 15, 113, 7, 71, 71, 71, 111, 71, 76, 76, 107, 7, 76, 74, 73, 5, 69, 107, 11, 77, 77, 109, 5, 81,
    79, 75, 14, 78, 107, 7, 76, 74, 73, 5, 69, 107, 11, 77, 77, 109, 5, 79, 77, 77, 73, 5, 69, 107, 11, 77, 75, 107, 107, 5,
    77, 73, 13, 77, 75, 107, 107, 5, 79, 77, 7, 71, 111, 71, 76, 76, 107, 17, 71, 71, 71, 73, 71, 76, 76, 107, 7, 76, 74, 73,
    5, 69, 107, 11, 77, 77, 109, 5, 81, 79, 75, 14, 78, 107, 7, 76, 74, 73, 5, 69, 107, 11, 77, 77, 109, 5, 79, 77, 77, 73,
    5, 69, 107, 11, 77, 75, 107, 107, 5, 77, 73, 13, 77, 75, 107, 107, 5, 79, 75, 14, 103, 74, 103, 77, 73, 5, 69, 107, 11, 77,
    75, 107, 107, 9, 5, 74, 72, 71, 9, 75, 75, 73, 5, 69, 107, 10, 71, 69, 72, 73, 73, 105, 7, 107, 107, 105, 105, 104, 104, 107,
    9, 5, 74, 72, 70, 8, 107, 5, 75, 70, 8, 107, 5, 75, 73, 71, 9, 73, 73, 71, 9, 107, 109, 13, 111, 15, 7, 78, 76, 103,
    75, 7, 71, 111, 71, 76, 76, 107, 17, 71, 71, 71, 73, 71, 76, 76, 107, 7, 76, 74, 73, 5, 69, 107, 11, 77, 77, 109, 5, 81,
    79, 75, 14, 78, 107, 7, 76, 74, 73, 5, 69, 107, 11, 77, 77, 109, 5, 79, 77, 77, 73, 5, 69, 107, 11, 77, 75, 107, 107, 5,
    77, 73, 13, 77, 75, 107, 107, 5, 79, 75, 14, 103, 74, 103, 77, 73, 5, 69, 107, 11, 77, 75, 107, 107, 9, 5, 74, 72, 71, 9,
    75, 75, 73, 5, 69, 107, 10, 71, 69, 72, 73, 73, 105, 7, 107, 107, 105, 105, 104, 104, 107, 9, 5, 74, 72, 70, 8, 107, 5, 75,
    70, 8, 107, 5, 75, 73, 71, 9, 73, 73, 71, 9, 107, 109, 5, 103, 81, 73, 73, 73, 111, 5, 71, 113, 71, 71, 71, 73, 71, 77,
    111, 15, 113, 7, 81, 79, 75, 11, 14, 76, 103, 75, 7, 71, 3, 71, 113, 71, 75, 7, 71, 71, 73, 71, 77, 111, 15, 111, 7, 78,
    76, 103, 75, 7, 71, 111, 71, 76, 76, 107, 7, 76, 74, 73, 5, 69, 107, 11, 77, 77, 109, 5, 81, 81, 77, 7, 71, 111, 71, 77,
    111, 15, 111, 7, 78, 76, 103, 75, 7, 71, 111, 71, 76, 76, 107, 7, 76, 74, 73, 5, 69, 107, 11, 77, 77, 109, 5, 81, 79, 75,
    14, 78, 107, 7, 76, 74, 73, 5, 69, 107, 11, 77, 77, 109, 5, 79, 77, 77, 73, 5, 69, 107, 11, 77, 75, 107, 107, 5, 77, 73,
    13, 77, 75, 107, 107, 5, 79, 77, 7, 71, 111, 71, 76, 76, 107, 17, 71, 71, 71, 73, 71, 76, 76, 107, 7, 76, 74, 73, 5, 69,
    107, 11, 77, 77, 109, 5, 81, 79, 75, 14, 78, 107, 7, 76, 74, 73, 5, 69, 107, 11, 77, 77, 109, 5, 79, 77, 77, 73, 5, 69,
    107, 11, 77, 75, 107, 107, 5, 77, 73, 13, 77, 75, 107, 107, 5, 79, 75, 14, 103, 74, 103, 77, 73, 5, 69, 107, 11, 77, 75, 107,
    107, 9, 5, 74, 72, 71, 9, 75, 75, 73, 5, 69, 107, 10, 71, 69, 72, 73, 73, 105, 7, 107, 107, 105, 105, 104, 104, 107, 9, 5,
    74, 72, 70, 8, 107, 5, 75, 70, 8, 107, 5, 75, 73, 71, 9, 73, 73, 71, 9, 107, 109, 5, 103, 81, 73, 73, 81, 113, 7, 81,
    79, 75, 7, 71, 71, 109, 5, 78, 76, 103, 75, 7, 71, 71, 109, 5, 76, 74, 101, 77, 73, 5, 69, 107, 5, 78, 76, 103, 75, 7,
    71, 71, 109, 5, 76, 74, 101, 77, 73, 5, 69, 107, 5, 76, 74, 101, 77, 73, 5, 69, 107, 11, 77, 75, 107, 107, 5, 77, 73, 12,
    74, 107, 5, 75, 73, 71, 9, 75, 75, 75, 73, 72, 72, 73, 9, 7, 71, 71, 71, 77, 109, 5, 76, 74, 101, 73, 13, 77, 75, 75,
    73, 5, 69, 107, 5, 76, 74, 101, 77, 73, 5, 69, 107, 11, 77, 75, 107, 107, 5, 77, 73, 12, 74, 107, 5, 75, 73, 71, 9, 75,
    75, 75, 73, 72, 72, 73, 5, 69, 107, 5, 78, 76, 103, 75, 7, 71, 71, 109, 5, 76, 74, 101, 77, 73, 5, 69, 107, 5, 76, 74,
    101, 77, 73, 5, 69, 107, 11, 77, 75, 107, 107, 5, 77, 73, 12, 74, 107, 5, 75, 73, 71, 9, 75, 75, 75, 73, 72, 72, 73, 9,
    7, 69, 69, 69, 75, 107, 10, 71, 69, 72, 73, 73, 105, 7, 105, 105, 9, 75, 77, 77, 77, 75, 75, 75, 75, 5, 69, 69, 77, 75,
    107, 10, 69, 69, 71, 69, 69, 69, 72, 73, 73, 105, 7, 107, 107, 105, 105, 104, 104, 107, 5, 77, 73, 12, 74, 107, 5, 75, 70, 8,
    107, 5, 75, 73, 71, 9, 73, 70, 8, 107, 5, 75, 73, 71, 9, 73, 73, 71, 9, 73, 73, 73, 71, 71, 71, 71, 9, 75, 77, 77,
    75, 75, 75, 75, 5, 71, 73, 81, 79, 79, 77, 109, 5, 73, 75, 75, 115, 75, 75, 75, 83, 115, 9, 83, 81, 77, 9, 73, 75, 73,
    79, 76, 16, 107, 107, 80, 75, 80, 75, 115, 9, 83, 81, 76, 9, 112, 7, 74, 11, 7, 71, 74, 10, 15, 103, 71, 71, 71, 106, 71,
    109, 5, 103, 76, 71, 71, 3, 71, 111, 76, 71, 75, 7, 71, 111, 71, 77, 111, 15, 111, 7, 78, 76, 103, 75, 7, 71, 111, 71, 76,
    76, 107, 7, 76, 74, 73, 5, 69, 107, 11, 77, 77, 109, 5, 113, 17, 71, 71, 71, 73, 71, 77, 111, 15, 111, 7, 78, 76, 103, 75,
    7, 71, 111, 71, 76, 76, 107, 7, 76, 74, 73, 5, 69, 107, 11, 77, 77, 109, 5, 81, 81, 77, 7, 71, 111, 71, 77, 111, 15, 111,
    7, 78, 76, 103, 75, 7, 71, 111, 71, 76, 76, 107, 7, 76, 74, 73, 5, 69, 107, 11, 77, 77, 109, 5, 81, 79, 75, 14, 78, 107,
    7, 76, 74, 73, 5, 69, 107, 11, 77, 77, 109, 5, 79, 77, 77, 73, 5, 69, 107, 11, 77, 75, 107, 107, 5, 77, 73, 13, 77, 75,
    107, 107, 5, 111, 15, 7, 78, 76, 103, 75, 15, 113, 7, 71, 71, 71, 111, 71, 76, 76, 107, 7, 76, 74, 73, 5, 69, 107, 11, 77,
    77, 109, 5, 81, 79, 75, 14, 78, 107, 7, 76, 74, 73, 5, 69, 107, 11, 77, 77, 109, 5, 79, 77, 77, 73, 5, 69, 107, 11, 77,
    75, 107, 107, 5, 77, 73, 13, 77, 75, 107, 107, 5, 79, 77, 7, 71, 111, 71, 76, 76, 107, 17, 71, 71, 71, 73, 71, 76, 76, 107,
    7, 76, 74, 73, 5, 69, 107, 11, 77, 77, 109, 5, 81, 79, 75, 14, 78, 107, 7, 76, 74, 73, 5, 69, 107, 11, 77, 77, 109, 5,
    79, 77, 77, 73, 5, 69, 107, 11, 77, 75, 107, 107, 5, 77, 73, 13, 77, 75, 107, 107, 5, 79, 75, 14, 103, 74, 103, 77, 73, 5,
    69, 107, 11, 77, 75, 107, 107, 9, 5, 74, 72, 71, 9, 75, 75, 73, 5, 69, 107, 10, 71, 69, 72, 73, 73, 105, 7, 107, 107, 105,
    105, 104, 104, 107, 9, 5, 74, 72, 70, 8, 107, 5, 75, 70, 8, 107, 5, 75, 73, 71, 9, 73, 73, 71, 9, 107, 109, 13, 111, 15,
    7, 78, 76, 103, 75, 7, 71, 111, 71, 76, 76, 107, 17, 71, 71, 71, 73, 71, 76, 76, 107, 7, 76, 74, 73, 5, 69, 107, 11, 77,
    77, 109, 5, 81, 79, 75, 14, 78, 107, 7, 76, 74, 73, 5, 69, 107, 11, 77, 77, 109, 5, 79, 77, 77, 73, 5, 69, 107, 11, 77,
    75, 107, 107, 5, 77, 73, 13, 77, 75, 107, 107, 5, 79, 75, 14, 103, 74, 103, 77, 73, 5, 69, 107, 11, 77, 75, 107, 107, 9, 5,
    74, 72, 71, 9, 75, 75, 73, 5, 69, 107, 10, 71, 69, 72, 73, 73, 105, 7, 107, 107, 105, 105, 104, 104, 107, 9, 5, 74, 72, 70,
    8, 107, 5, 75, 70, 8, 107, 5, 75, 73, 71, 9, 73, 73, 71, 9, 107, 109, 5, 103, 81, 73, 73, 73, 111, 5, 71, 113, 71, 71,
    71, 73, 71, 77, 111, 15, 113, 7, 81, 79, 75, 11, 14, 76, 103, 75, 7, 71, 3, 71, 113, 71, 75, 7, 71, 71, 73, 71, 77, 111,
    15, 111, 7, 78, 76, 103, 75, 7, 71, 111, 71, 76, 76, 107, 7, 76, 74, 73, 5, 69, 107, 11, 77, 77, 109, 5, 81, 81, 77, 7,
    71, 111, 71, 77, 111, 15, 111, 7, 78, 76, 103, 75, 7, 71, 111, 71, 76, 76, 107, 7, 76, 74, 73, 5, 69, 107, 11, 77, 77, 109,
    5, 81, 79, 75, 14, 78, 107, 7, 76, 74, 73, 5, 69, 107, 11, 77, 77, 109, 5, 79, 77, 77, 73, 5, 69, 107, 11, 77, 75, 107,
    107, 5, 77, 73, 13, 77, 75, 107, 107, 5, 79, 77, 7, 71, 111, 71, 76, 76, 107, 17, 71, 71, 71, 73, 71, 76, 76, 107, 7, 76,
    74, 73, 5, 69, 107, 11, 77, 77, 109, 5, 81, 79, 75, 14, 78, 107, 7, 76, 74, 73, 5, 69, 107, 11, 77, 77, 109, 5, 79, 77,
    77, 73, 5, 69, 107, 11, 77, 75, 107, 107, 5, 77, 73, 13, 77, 75, 107, 107, 5, 79, 75, 14, 103, 74, 103, 77, 73, 5, 69, 107,
    11, 77, 75, 107, 107, 9, 5, 74, 72, 71, 9, 75, 75, 73, 5, 69, 107, 10, 71, 69, 72, 73, 73, 105, 7, 107, 107, 105, 105, 104,
    104, 107, 9, 5, 74, 72, 70, 8, 107, 5, 75, 70, 8, 107, 5, 75, 73, 71, 9, 73, 73, 71, 9, 107, 109, 5, 103, 81, 73, 73,
    81, 113, 7, 81, 79, 75, 7, 71, 71, 109, 5, 78, 76, 103, 75, 7, 71, 71, 109, 5, 76, 74, 101, 77, 73, 5, 69, 107, 5, 78,
    76, 103, 75, 7, 71, 71, 109, 5, 76, 74, 101, 77, 73, 5, 69, 107, 5, 76, 74, 101, 77, 73, 5, 69, 107, 11, 77, 75, 107, 107,
    5, 77, 73, 12, 74, 107, 5, 75, 73, 71, 9, 75, 75, 75, 73, 72, 72, 73, 9, 7, 71, 71, 71, 77, 109, 5, 76, 74, 101, 73,
    13, 77, 75, 75, 73, 5, 69, 107, 5, 76, 74, 101, 77, 73, 5, 69, 107, 11, 77, 75, 107, 107, 5, 77, 73, 12, 74, 107, 5, 75,
    73, 71, 9, 75, 75, 75, 73, 72, 72, 73, 5, 69, 107, 5, 78, 76, 103, 75, 7, 71, 71, 109, 5, 76, 74, 101, 77, 73, 5, 69,
    107, 5, 76, 74, 101, 77, 73, 5, 69, 107, 11, 77, 75, 107, 107, 5, 77, 73, 12, 74, 107, 5, 75, 73, 71, 9, 75, 75, 75, 73,
    72, 72, 73, 9, 7, 69, 69, 69, 75, 107, 10, 71, 69, 72, 73, 73, 105, 7, 105, 105, 9, 75, 77, 77, 77, 75, 75, 75, 75, 5,
    69, 69, 77, 75, 107, 10, 69, 69, 71, 69, 69, 69, 72, 73, 73, 105, 7, 107, 107, 105, 105, 104, 104, 107, 5, 77, 73, 12, 74, 107,
    5, 75, 70, 8, 107, 5, 75, 73, 71, 9, 73, 70, 8, 107, 5, 75, 73, 71, 9, 73, 73, 71, 9, 73, 73, 73, 71, 71, 71, 71,
    9, 75, 77, 77, 75, 75, 75, 75, 5, 71, 73, 81, 79, 79, 77, 109, 5, 71, 73, 73, 113, 73, 73, 73, 81, 113, 7, 81, 79, 75,
    7, 71, 3, 71, 113, 71, 75, 7, 71, 71, 73, 71, 77, 111, 15, 111, 7, 78, 76, 103, 75, 7, 71, 111, 71, 76, 76, 107, 7, 76,
    74, 73, 5, 69, 107, 11, 77, 77, 109, 5, 81, 81, 77, 7, 71, 111, 71, 77, 111, 15, 111, 7, 78, 76, 103, 75, 7, 71, 111, 71,
    76, 76, 107, 7, 76, 74, 73, 5, 69, 107, 11, 77, 77, 109, 5, 81, 79, 75, 14, 78, 107, 7, 76, 74, 73, 5, 69, 107, 11, 77,
    77, 109, 5, 79, 77, 77, 73, 5, 69, 107, 11, 77, 75, 107, 107, 5, 77, 73, 13, 77, 75, 107, 107, 5, 79, 77, 7, 71, 111, 71,
    76, 76, 107, 17, 71, 71, 71, 73, 71, 76, 76, 107, 7, 76, 74, 73, 5, 69, 107, 11, 77, 77, 109, 5, 81, 79, 75, 14, 78, 107,
    7, 76, 74, 73, 5, 69, 107, 11, 77, 77, 109, 5, 79, 77, 77, 73, 5, 69, 107, 11, 77, 75, 107, 107, 5, 77, 73, 13, 77, 75,
    107, 107, 5, 79, 75, 14, 103, 74, 103, 77, 73, 5, 69, 107, 11, 77, 75, 107, 107, 9, 5, 74, 72, 71, 9, 75, 75, 73, 5, 69,
    107, 10, 71, 69, 72, 73, 73, 105, 7, 107, 107, 105, 105, 104, 104, 107, 9, 5, 74, 72, 70, 8, 107, 5, 75, 70, 8, 107, 5, 75,
    73, 71, 9, 73, 73, 71, 9, 107, 109, 5, 103, 81, 73, 73, 81, 113, 7, 81, 79, 75, 7, 71, 71, 109, 5, 78, 76, 103, 75, 7,
    71, 71, 109, 5, 76, 74, 101, 77, 73, 5, 69, 107, 5, 78, 76, 103, 75, 7, 71, 71, 109, 5, 76, 74, 101, 77, 73, 5, 69, 107,
    5, 76, 74, 101, 77, 73, 5, 69, 107, 11, 77, 75, 107, 107, 5, 77, 73, 12, 74, 107, 5, 75, 73, 71, 9, 75, 75, 75, 73, 72,
    72, 73, 9, 7, 71, 71, 71, 77, 109, 5, 76, 74, 101, 73, 13, 77, 75, 75, 73, 5, 69, 107, 5, 76, 74, 101, 77, 73, 5, 69,
    107, 11, 77, 75, 107, 107, 5, 77, 73, 12, 74, 107, 5, 75, 73, 71, 9, 75, 75, 75, 73, 72, 72, 73, 5, 69, 107, 5, 78, 76,
    103, 75, 7, 71, 71, 109, 5, 76, 74, 101, 77, 73, 5, 69, 107, 5, 76, 74, 101, 77, 73, 5, 69, 107, 11, 77, 75, 107, 107, 5,
    77, 73, 12, 74, 107, 5, 75, 73, 71, 9, 75, 75, 75, 73, 72, 72, 73, 9, 7, 69, 69, 69, 75, 107, 10, 71, 69, 72, 73, 73,
    105, 7, 105, 105, 9, 75, 77, 77, 77, 75, 75, 75, 75, 5, 69, 69, 77, 75, 107, 10, 69, 69, 71, 69, 69, 69, 72, 73, 73, 105,
    7, 107, 107, 105, 105, 104, 104, 107, 5, 77, 73, 12, 74, 107, 5, 75, 70, 8, 107, 5, 75, 73, 71, 9, 73, 70, 8, 107, 5, 75,
    73, 71, 9, 73, 73, 71, 9, 73, 73, 73, 71, 71, 71, 71, 9, 75, 77, 77, 75, 75, 75, 75, 5, 79, 113, 7, 79, 75, 7, 71,
    71, 109, 5, 78, 76, 103, 75, 7, 71, 71, 109, 5, 76, 74, 101, 77, 73, 5, 69, 107, 5, 78, 76, 103, 75, 7, 71, 71, 109, 5,
    76, 74, 101, 77, 73, 5, 69, 107, 5, 76, 74, 101, 77, 73, 5, 69, 107, 11, 77, 75, 107, 107, 5, 77, 73, 12, 74, 107, 5, 75,
    73, 71, 9, 75, 75, 75, 73, 72, 72, 73, 9, 7, 71, 71, 71, 77, 109, 5, 76, 74, 101, 73, 13, 77, 75, 75, 73, 5, 69, 107,
    5, 76, 74, 101, 77, 73, 5, 69, 107, 11, 77, 75, 107, 107, 5, 77, 73, 12, 74, 107, 5, 75, 73, 71, 9, 75, 75, 75, 73, 72,
    72, 73, 5, 69, 107, 5, 78, 76, 103, 75, 7, 71, 71, 109, 5, 76, 74, 101, 77, 73, 5, 69, 107, 5, 76, 74, 101, 77, 73, 5,
    69, 107, 11, 77, 75, 107, 107, 5, 77, 73, 12, 74, 107, 5, 75, 73, 71, 9, 75, 75, 75, 73, 72, 72, 73, 9, 7, 69, 69, 69,
    75, 107, 10, 71, 69, 72, 73, 73, 105, 7, 105, 105, 9, 75, 77, 77, 77, 75, 75, 75, 75, 5, 69, 69, 77, 75, 107, 10, 69, 69,
    71, 69, 69, 69, 72, 73, 73, 105, 7, 107, 107, 105, 105, 104, 104, 107, 5, 77, 73, 12, 74, 107, 5, 75, 70, 8, 107, 5, 75, 73,
    71, 9, 73, 70, 8, 107, 5, 75, 73, 71, 9, 73, 73, 71, 9, 73, 73, 73, 71, 71, 71, 71, 9, 75, 77, 77, 75, 75, 75, 75,
    5, 71, 71, 79, 77, 108, 12, 76, 14, 99, 66, 3, 98, 99, 105, 7, 11, 3, 99, 99, 99, 105, 71, 11, 75, 71, 3, 107, 107, 11,
    105, 105, 73, 71, 3, 109, 109, 12, 71, 69, 72, 105, 105, 3, 99, 99, 99, 99, 105, 71, 9, 71, 11, 71, 11, 105, 105, 73, 71, 3,
    107, 107, 11, 105, 105, 73, 71, 3, 109, 109, 12, 71, 69, 72, 105, 105, 3, 99, 99, 99, 99, 105, 71, 9, 71, 11, 71, 11, 105, 105,
    73, 71, 3, 107, 107, 11, 105, 105, 73, 71, 3, 107, 107, 11, 105, 105, 105, 105, 3, 99, 99, 99, 99, 105, 103, 103, 69, 7, 73, 73,
    73, 71, 70, 70, 71, 3, 107, 107, 11, 105, 105, 73, 71, 3, 109, 109, 12, 71, 69, 72, 105, 105, 3, 99, 99, 99, 99, 105, 71, 9,
    71, 11, 71, 11, 105, 105, 73, 71, 3, 107, 107, 11, 105, 105, 73, 71, 3, 107, 107, 11, 105, 105, 105, 105, 3, 99, 99, 99, 99, 105,
    103, 103, 69, 7, 73, 73, 73, 71, 70, 70, 71, 3, 107, 107, 11, 105, 105, 73, 71, 3, 107, 107, 11, 105, 105, 105, 105, 3, 99, 99,
    99, 99, 105, 103, 103, 69, 7, 73, 73, 73, 71, 70, 70, 71, 3, 107, 107, 10, 69, 67, 70, 103, 102, 4, 71, 3, 105, 9, 103, 103,
    103, 102, 4, 71, 3, 105, 9, 103, 103, 103, 103, 7, 103, 103, 103, 101, 101, 101, 101, 103, 5, 73, 75, 75, 73, 73, 73, 73, 3, 109,
    111, 109, 109, 109, 109, 1, 71, 73, 9, 73, 115, 73, 73, 73, 75, 73, 79, 77, 17, 77, 9, 73, 75, 73, 79, 76, 16, 107, 107, 80,
    75, 80, 75, 115, 9, 83, 81, 76, 9, 112, 7, 74, 11, 7, 71, 74, 10, 15, 103, 71, 71, 71, 106, 71, 109, 5, 103, 76, 71, 71,
    3, 71, 111, 76, 71, 75, 7, 71, 111, 71, 77, 111, 15, 111, 7, 78, 76, 103, 75, 7, 71, 111, 71, 76, 76, 107, 7, 76, 74, 73,
    5, 69, 107, 11, 77, 77, 109, 5, 113, 17, 71, 71, 71, 73, 71, 77, 111, 15, 111, 7, 78, 76, 103, 75, 7, 71, 111, 71, 76, 76,
    107, 7, 76, 74, 73, 5, 69, 107, 11, 77, 77, 109, 5, 81, 81, 77, 7, 71, 111, 71, 77, 111, 15, 111, 7, 78, 76, 103, 75, 7,
    71, 111, 71, 76, 76, 107, 7, 76, 74, 73, 5, 69, 107, 11, 77, 77, 109, 5, 81, 79, 75, 14, 78, 107, 7, 76, 74, 73, 5, 69,
    107, 11, 77, 77, 109, 5, 79, 77, 77, 73, 5, 69, 107, 11, 77, 75, 107, 107, 5, 77, 73, 13, 77, 75, 107, 107, 5, 111, 15, 7,
    78, 76, 103, 75, 15, 113, 7, 71, 71, 71, 111, 71, 76, 76, 107, 7, 76, 74, 73, 5, 69, 107, 11, 77, 77, 109, 5, 81, 79, 75,
    14, 78, 107, 7, 76, 74, 73, 5, 69, 107, 11, 77, 77, 109, 5, 79, 77, 77, 73, 5, 69, 107, 11, 77, 75, 107, 107, 5, 77, 73,
    13, 77, 75, 107, 107, 5, 79, 77, 7, 71, 111, 71, 76, 76, 107, 17, 71, 71, 71, 73, 71, 76, 76, 107, 7, 76, 74, 73, 5, 69,
    107, 11, 77, 77, 109, 5, 81, 79, 75, 14, 78, 107, 7, 76, 74, 73, 5, 69, 107, 11, 77, 77, 109, 5, 79, 77, 77, 73, 5, 69,
    107, 11, 77, 75, 107, 107, 5, 77, 73, 13, 77, 75, 107, 107, 5, 79, 75, 14, 103, 74, 103, 77, 73, 5, 69, 107, 11, 77, 75, 107,
    107, 9, 5, 74, 72, 71, 9, 75, 75, 73, 5, 69, 107, 10, 71, 69, 72, 73, 73, 105, 7, 107, 107, 105, 105, 104, 104, 107, 9, 5,
    74, 72, 70, 8, 107, 5, 75, 70, 8, 107, 5, 75, 73, 71, 9, 73, 73, 71, 9, 107, 109, 13, 111, 15, 7, 78, 76, 103, 75, 7,
    71, 111, 71, 76, 76, 107, 17, 71, 71, 71, 73, 71, 76, 76, 107, 7, 76, 74, 73, 5, 69, 107, 11, 77, 77, 109, 5, 81, 79, 75,
    14, 78, 107, 7, 76, 74, 73, 5, 69, 107, 11, 77, 77, 109, 5, 79, 77, 77, 73, 5, 69, 107, 11, 77, 75, 107, 107, 5, 77, 73,
    13, 77, 75, 107, 107, 5, 79, 75, 14, 103, 74, 103, 77, 73, 5, 69, 107, 11, 77, 75, 107, 107, 9, 5, 74, 72, 71, 9, 75, 75,
    73, 5, 69, 107, 10, 71, 69, 72, 73, 73, 105, 7, 107, 107, 105, 105, 104, 104, 107, 9, 5, 74, 72, 70, 8, 107, 5, 75, 70, 8,
    107, 5, 75, 73, 71, 9, 73, 73, 71, 9, 107, 109, 5, 103, 81, 73, 73, 73, 111, 5, 71, 113, 71, 71, 71, 73, 71, 77, 111, 15,
    113, 7, 81, 79, 75, 11, 14, 76, 103, 75, 7, 71, 3, 71, 113, 71, 75, 7, 71, 71, 73, 71, 77, 111, 15, 111, 7, 78, 76, 103,
    75, 7, 71, 111, 71, 76, 76, 107, 7, 76, 74, 73, 5, 69, 107, 11, 77, 77, 109, 5, 81, 81, 77, 7, 71, 111, 71, 77, 111, 15,
    111, 7, 78, 76, 103, 75, 7, 71, 111, 71, 76, 76, 107, 7, 76, 74, 73, 5, 69, 107, 11, 77, 77, 109, 5, 81, 79, 75, 14, 78,
    107, 7, 76, 74, 73, 5, 69, 107, 11, 77, 77, 109, 5, 79, 77, 77, 73, 5, 69, 107, 11, 77, 75, 107, 107, 5, 77, 73, 13, 77,
    75, 107, 107, 5, 79, 77, 7, 71, 111, 71, 76, 76, 107, 17, 71, 71, 71, 73, 71, 76, 76, 107, 7, 76, 74, 73, 5, 69, 107, 11,
    77, 77, 109, 5, 81, 79, 75, 14, 78, 107, 7, 76, 74, 73, 5, 69, 107, 11, 77, 77, 109, 5, 79, 77, 77, 73, 5, 69, 107, 11,
    77, 75, 107, 107, 5, 77, 73, 13, 77, 75, 107, 107, 5, 79, 75, 14, 103, 74, 103, 77, 73, 5, 69, 107, 11, 77, 75, 107, 107, 9,
    5, 74, 72, 71, 9, 75, 75, 73, 5, 69, 107, 10, 71, 69, 72, 73, 73, 105, 7, 107, 107, 105, 105, 104, 104, 107, 9, 5, 74, 72,
    70, 8, 107, 5, 75, 70, 8, 107, 5, 75, 73, 71, 9, 73, 73, 71, 9, 107, 109, 5, 103, 81, 73, 73, 81, 113, 7, 81, 79, 75,
    7, 71, 71, 109, 5, 78, 76, 103, 75, 7, 71, 71, 109, 5, 76, 74, 101, 77, 73, 5, 69, 107, 5, 78, 76, 103, 75, 7, 71, 71,
    109, 5, 76, 74, 101, 77, 73, 5, 69, 107, 5, 76, 74, 101, 77, 73, 5, 69, 107, 11, 77, 75, 107, 107, 5, 77, 73, 12, 74, 107,
    5, 75, 73, 71, 9, 75, 75, 75, 73, 72, 72, 73, 9, 7, 71, 71, 71, 77, 109, 5, 76, 74, 101, 73, 13, 77, 75, 75, 73, 5,
    69, 107, 5, 76, 74, 101, 77, 73, 5, 69, 107, 11, 77, 75, 107, 107, 5, 77, 73, 12, 74, 107, 5, 75, 73, 71, 9, 75, 75, 75,
    73, 72, 72, 73, 5, 69, 107, 5, 78, 76, 103, 75, 7, 71, 71, 109, 5, 76, 74, 101, 77, 73, 5, 69, 107, 5, 76, 74, 101, 77,
    73, 5, 69, 107, 11, 77, 75, 107, 107, 5, 77, 73, 12, 74, 107, 5, 75, 73, 71, 9, 75, 75, 75, 73, 72, 72, 73, 9, 7, 69,
    69, 69, 75, 107, 10, 71, 69, 72, 73, 73, 105, 7, 105, 105, 9, 75, 77, 77, 77, 75, 75, 75, 75, 5, 69, 69, 77, 75, 107, 10,
    69, 69, 71, 69, 69, 69, 72, 73, 73, 105, 7, 107, 107, 105, 105, 104, 104, 107, 5, 77, 73, 12, 74, 107, 5, 75, 70, 8, 107, 5,
    75, 73, 71, 9, 73, 70, 8, 107, 5, 75, 73, 71, 9, 73, 73, 71, 9, 73, 73, 73, 71, 71, 71, 71, 9, 75, 77, 77, 75, 75,
    75, 75, 5, 71, 73, 81, 79, 79, 77, 109, 5, 71, 73, 73, 113, 73, 73, 73, 81, 113, 7, 81, 79, 75, 7, 71, 3, 71, 113, 71,
    75, 7, 71, 71, 73, 71, 77, 111, 15, 111, 7, 78, 76, 103, 75, 7, 71, 111, 71, 76, 76, 107, 7, 76, 74, 73, 5, 69, 107, 11,
    77, 77, 109, 5, 81, 81, 77, 7, 71, 111, 71, 77, 111, 15, 111, 7, 78, 76, 103, 75, 7, 71, 111, 71, 76, 76, 107, 7, 76, 74,
    73, 5, 69, 107, 11, 77, 77, 109, 5, 81, 79, 75, 14, 78, 107, 7, 76, 74, 73, 5, 69, 107, 11, 77, 77, 109, 5, 79, 77, 77,
    73, 5, 69, 107, 11, 77, 75, 107, 107, 5, 77, 73, 13, 77, 75, 107, 107, 5, 79, 77, 7, 71, 111, 71, 76, 76, 107, 17, 71, 71,
    71, 73, 71, 76, 76, 107, 7, 76, 74, 73, 5, 69, 107, 11, 77, 77, 109, 5, 81, 79, 75, 14, 78, 107, 7, 76, 74, 73, 5, 69,
    107, 11, 77, 77, 109, 5, 79, 77, 77, 73, 5, 69, 107, 11, 77, 75, 107, 107, 5, 77, 73, 13, 77, 75, 107, 107, 5, 79, 75, 14,
    103, 74, 103, 77, 73, 5, 69, 107, 11, 77, 75, 107, 107, 9, 5, 74, 72, 71, 9, 75, 75, 73, 5, 69, 107, 10, 71, 69, 72, 73,
    73, 105, 7, 107, 107, 105, 105, 104, 104, 107, 9, 5, 74, 72, 70, 8, 107, 5, 75, 70, 8, 107, 5, 75, 73, 71, 9, 73, 73, 71,
    9, 107, 109, 5, 103, 81, 73, 73, 81, 113, 7, 81, 79, 75, 7, 71, 71, 109, 5, 78, 76, 103, 75, 7, 71, 71, 109, 5, 76, 74,
    101, 77, 73, 5, 69, 107, 5, 78, 76, 103, 75, 7, 71, 71, 109, 5, 76, 74, 101, 77, 73, 5, 69, 107, 5, 76, 74, 101, 77, 73,
    5, 69, 107, 11, 77, 75, 107, 107, 5, 77, 73, 12, 74, 107, 5, 75, 73, 71, 9, 75, 75, 75, 73, 72, 72, 73, 9, 7, 71, 71,
    71, 77, 109, 5, 76, 74, 101, 73, 13, 77, 75, 75, 73, 5, 69, 107, 5, 76, 74, 101, 77, 73, 5, 69, 107, 11, 77, 75, 107, 107,
    5, 77, 73, 12, 74, 107, 5, 75, 73, 71, 9, 75, 75, 75, 73, 72, 72, 73, 5, 69, 107, 5, 78, 76, 103, 75, 7, 71, 71, 109,
    5, 76, 74, 101, 77, 73, 5, 69, 107, 5, 76, 74, 101, 77, 73, 5, 69, 107, 11, 77, 75, 107, 107, 5, 77, 73, 12, 74, 107, 5,
    75, 73, 71, 9, 75, 75, 75, 73, 72, 72, 73, 9, 7, 69, 69, 69, 75, 107, 10, 71, 69, 72, 73, 73, 105, 7, 105, 105, 9, 75,
    77, 77, 77, 75, 75, 75, 75, 5, 69, 69, 77, 75, 107, 10, 69, 69, 71, 69, 69, 69, 72, 73, 73, 105, 7, 107, 107, 105, 105, 104,
    104, 107, 5, 77, 73, 12, 74, 107, 5, 75, 70, 8, 107, 5, 75, 73, 71, 9, 73, 70, 8, 107, 5, 75, 73, 71, 9, 73, 73, 71,
    9, 73, 73, 73, 71, 71, 71, 71, 9, 75, 77, 77, 75, 75, 75, 75, 5, 79, 113, 7, 79, 75, 7, 71, 71, 109, 5, 78, 76, 103,
    75, 7, 71, 71, 109, 5, 76, 74, 101, 77, 73, 5, 69, 107, 5, 78, 76, 103, 75, 7, 71, 71, 109, 5, 76, 74, 101, 77, 73, 5,
    69, 107, 5, 76, 74, 101, 77, 73, 5, 69, 107, 11, 77, 75, 107, 107, 5, 77, 73, 12, 74, 107, 5, 75, 73, 71, 9, 75, 75, 75,
    73, 72, 72, 73, 9, 7, 71, 71, 71, 77, 109, 5, 76, 74, 101, 73, 13, 77, 75, 75, 73, 5, 69, 107, 5, 76, 74, 101, 77, 73,
    5, 69, 107, 11, 77, 75, 107, 107, 5, 77, 73, 12, 74, 107, 5, 75, 73, 71, 9, 75, 75, 75, 73, 72, 72, 73, 5, 69, 107, 5,
    78, 76, 103, 75, 7, 71, 71, 109, 5, 76, 74, 101, 77, 73, 5, 69, 107, 5, 76, 74, 101, 77, 73, 5, 69, 107, 11, 77, 75, 107,
    107, 5, 77, 73, 12, 74, 107, 5, 75, 73, 71, 9, 75, 75, 75, 73, 72, 72, 73, 9, 7, 69, 69, 69, 75, 107, 10, 71, 69, 72,
    73, 73, 105, 7, 105, 105, 9, 75, 77, 77, 77, 75, 75, 75, 75, 5, 69, 69, 77, 75, 107, 10, 69, 69, 71, 69, 69, 69, 72, 73,
    73, 105, 7, 107, 107, 105, 105, 104, 104, 107, 5, 77, 73, 12, 74, 107, 5, 75, 70, 8, 107, 5, 75, 73, 71, 9, 73, 70, 8, 107,
    5, 75, 73, 71, 9, 73, 73, 71, 9, 73, 73, 73, 71, 71, 71, 71, 9, 75, 77, 77, 75, 75, 75, 75, 5, 71, 71, 79, 77, 108,
    12, 76, 14, 99, 66, 3, 98, 99, 105, 7, 11, 3, 99, 99, 99, 105, 71, 11, 75, 71, 3, 107, 107, 11, 105, 105, 73, 71, 3, 109,
    109, 12, 71, 69, 72, 105, 105, 3, 99, 99, 99, 99, 105, 71, 9, 71, 11, 71, 11, 105, 105, 73, 71, 3, 107, 107, 11, 105, 105, 73,
    71, 3, 109, 109, 12, 71, 69, 72, 105, 105, 3, 99, 99, 99, 99, 105, 71, 9, 71, 11, 71, 11, 105, 105, 73, 71, 3, 107, 107, 11,
    105, 105, 73, 71, 3, 107, 107, 11, 105, 105, 105, 105, 3, 99, 99, 99, 99, 105, 103, 103, 69, 7, 73, 73, 73, 71, 70, 70, 71, 3,
    107, 107, 11, 105, 105, 73, 71, 3, 109, 109, 12, 71, 69, 72, 105, 105, 3, 99, 99, 99, 99, 105, 71, 9, 71, 11, 71, 11, 105, 105,
    73, 71, 3, 107, 107, 11, 105, 105, 73, 71, 3, 107, 107, 11, 105, 105, 105, 105, 3, 99, 99, 99, 99, 105, 103, 103, 69, 7, 73, 73,
    73, 71, 70, 70, 71, 3, 107, 107, 11, 105, 105, 73, 71, 3, 107, 107, 11, 105, 105, 105, 105, 3, 99, 99, 99, 99, 105, 103, 103, 69,
    7, 73, 73, 73, 71, 70, 70, 71, 3, 107, 107, 10, 69, 67, 70, 103, 102, 4, 71, 3, 105, 9, 103, 103, 103, 102, 4, 71, 3, 105,
    9, 103, 103, 103, 103, 7, 103, 103, 103, 101, 101, 101, 101, 103, 5, 73, 75, 75, 73, 73, 73, 73, 3, 109, 111, 109, 109, 109, 109, 1,
    71, 71, 7, 71, 113, 71, 71, 71, 71, 109, 5, 78, 76, 103, 75, 7, 71, 3, 71, 113, 71, 75, 7, 71, 71, 73, 71, 77, 111, 15,
    111, 7, 78, 76, 103, 75, 7, 71, 111, 71, 76, 76, 107, 7, 76, 74, 73, 5, 69, 107, 11, 77, 77, 109, 5, 81, 81, 77, 7, 71,
    111, 71, 77, 111, 15, 111, 7, 78, 76, 103, 75, 7, 71, 111, 71, 76, 76, 107, 7, 76, 74, 73, 5, 69, 107, 11, 77, 77, 109, 5,
    81, 79, 75, 14, 78, 107, 7, 76, 74, 73, 5, 69, 107, 11, 77, 77, 109, 5, 79, 77, 77, 73, 5, 69, 107, 11, 77, 75, 107, 107,
    5, 77, 73, 13, 77, 75, 107, 107, 5, 79, 77, 7, 71, 111, 71, 76, 76, 107, 17, 71, 71, 71, 73, 71, 76, 76, 107, 7, 76, 74,
    73, 5, 69, 107, 11, 77, 77, 109, 5, 81, 79, 75, 14, 78, 107, 7, 76, 74, 73, 5, 69, 107, 11, 77, 77, 109, 5, 79, 77, 77,
    73, 5, 69, 107, 11, 77, 75, 107, 107, 5, 77, 73, 13, 77, 75, 107, 107, 5, 79, 75, 14, 103, 74, 103, 77, 73, 5, 69, 107, 11,
    77, 75, 107, 107, 9, 5, 74, 72, 71, 9, 75, 75, 73, 5, 69, 107, 10, 71, 69, 72, 73, 73, 105, 7, 107, 107, 105, 105, 104, 104,
    107, 9, 5, 74, 72, 70, 8, 107, 5, 75, 70, 8, 107, 5, 75, 73, 71, 9, 73, 73, 71, 9, 107, 109, 5, 103, 81, 73, 73, 81,
    113, 7, 81, 79, 75, 7, 71, 71, 109, 5, 78, 76, 103, 75, 7, 71, 71, 109, 5, 76, 74, 101, 77, 73, 5, 69, 107, 5, 78, 76,
    103, 75, 7, 71, 71, 109, 5, 76, 74, 101, 77, 73, 5, 69, 107, 5, 76, 74, 101, 77, 73, 5, 69, 107, 11, 77, 75, 107, 107, 5,
    77, 73, 12, 74, 107, 5, 75, 73, 71, 9, 75, 75, 75, 73, 72, 72, 73, 9, 7, 71, 71, 71, 77, 109, 5, 76, 74, 101, 73, 13,
    77, 75, 75, 73, 5, 69, 107, 5, 76, 74, 101, 77, 73, 5, 69, 107, 11, 77, 75, 107, 107, 5, 77, 73, 12, 74, 107, 5, 75, 73,
    71, 9, 75, 75, 75, 73, 72, 72, 73, 5, 69, 107, 5, 78, 76, 103, 75, 7, 71, 71, 109, 5, 76, 74, 101, 77, 73, 5, 69, 107,
    5, 76, 74, 101, 77, 73, 5, 69, 107, 11, 77, 75, 107, 107, 5, 77, 73, 12, 74, 107, 5, 75, 73, 71, 9, 75, 75, 75, 73, 72,
    72, 73, 9, 7, 69, 69, 69, 75, 107, 10, 71, 69, 72, 73, 73, 105, 7, 105, 105, 9, 75, 77, 77, 77, 75, 75, 75, 75, 5, 69,
    69, 77, 75, 107, 10, 69, 69, 71, 69, 69, 69, 72, 73, 73, 105, 7, 107, 107, 105, 105, 104, 104, 107, 5, 77, 73, 12, 74, 107, 5,
    75, 70, 8, 107, 5, 75, 73, 71, 9, 73, 70, 8, 107, 5, 75, 73, 71, 9, 73, 73, 71, 9, 73, 73, 73, 71, 71, 71, 71, 9,
    75, 77, 77, 75, 75, 75, 75, 5, 79, 113, 7, 79, 75, 7, 71, 71, 109, 5, 78, 76, 103, 75, 7, 71, 71, 109, 5, 76, 74, 101,
    77, 73, 5, 69, 107, 5, 78, 76, 103, 75, 7, 71, 71, 109, 5, 76, 74, 101, 77, 73, 5, 69, 107, 5, 76, 74, 101, 77, 73, 5,
    69, 107, 11, 77, 75, 107, 107, 5, 77, 73, 12, 74, 107, 5, 75, 73, 71, 9, 75, 75, 75, 73, 72, 72, 73, 9, 7, 71, 71, 71,
    77, 109, 5, 76, 74, 101, 73, 13, 77, 75, 75, 73, 5, 69, 107, 5, 76, 74, 101, 77, 73, 5, 69, 107, 11, 77, 75, 107, 107, 5,
    77, 73, 12, 74, 107, 5, 75, 73, 71, 9, 75, 75, 75, 73, 72, 72, 73, 5, 69, 107, 5, 78, 76, 103, 75, 7, 71, 71, 109, 5,
    76, 74, 101, 77, 73, 5, 69, 107, 5, 76, 74, 101, 77, 73, 5, 69, 107, 11, 77, 75, 107, 107, 5, 77, 73, 12, 74, 107, 5, 75,
    73, 71, 9, 75, 75, 75, 73, 72, 72, 73, 9, 7, 69, 69, 69, 75, 107, 10, 71, 69, 72, 73, 73, 105, 7, 105, 105, 9, 75, 77,
    77, 77, 75, 75, 75, 75, 5, 69, 69, 77, 75, 107, 10, 69, 69, 71, 69, 69, 69, 72, 73, 73, 105, 7, 107, 107, 105, 105, 104, 104,
    107, 5, 77, 73, 12, 74, 107, 5, 75, 70, 8, 107, 5, 75, 73, 71, 9, 73, 70, 8, 107, 5, 75, 73, 71, 9, 73, 73, 71, 9,
    73, 73, 73, 71, 71, 71, 71, 9, 75, 77, 77, 75, 75, 75, 75, 5, 71, 71, 79, 77, 108, 12, 76, 14, 99, 66, 3, 98, 99, 105,
    7, 11, 3, 99, 99, 99, 105, 71, 11, 75, 71, 3, 107, 107, 11, 105, 105, 73, 71, 3, 109, 109, 12, 71, 69, 72, 105, 105, 3, 99,
    99, 99, 99, 105, 71, 9, 71, 11, 71, 11, 105, 105, 73, 71, 3, 107, 107, 11, 105, 105, 73, 71, 3, 109, 109, 12, 71, 69, 72, 105,
    105, 3, 99, 99, 99, 99, 105, 71, 9, 71, 11, 71, 11, 105, 105, 73, 71, 3, 107, 107, 11, 105, 105, 73, 71, 3, 107, 107, 11, 105,
    105, 105, 105, 3, 99, 99, 99, 99, 105, 103, 103, 69, 7, 73, 73, 73, 71, 70, 70, 71, 3, 107, 107, 11, 105, 105, 73, 71, 3, 109,
    109, 12, 71, 69, 72, 105, 105, 3, 99, 99, 99, 99, 105, 71, 9, 71, 11, 71, 11, 105, 105, 73, 71, 3, 107, 107, 11, 105, 105, 73,
    71, 3, 107, 107, 11, 105, 105, 105, 105, 3, 99, 99, 99, 99, 105, 103, 103, 69, 7, 73, 73, 73, 71, 70, 70, 71, 3, 107, 107, 11,
    105, 105, 73, 71, 3, 107, 107, 11, 105, 105, 105, 105, 3, 99, 99, 99, 99, 105, 103, 103, 69, 7, 73, 73, 73, 71, 70, 70, 71, 3,
    107, 107, 10, 69, 67, 70, 103, 102, 4, 71, 3, 105, 9, 103, 103, 103, 102, 4, 71, 3, 105, 9, 103, 103, 103, 103, 7, 103, 103, 103,
    101, 101, 101, 101, 103, 5, 73, 75, 75, 73, 73, 73, 73, 3, 109, 111, 109, 109, 109, 109, 1, 99, 67, 3, 101, 101, 101, 101, 101, 101,
    109, 109, 5, 101, 101, 106, 106, 69, 15, 103, 103, 103, 103, 103, 108, 71, 108, 71, 111, 5, 101, 101, 109, 109, 75, 5, 101, 101, 101, 101,
    109, 108, 108, 69, 5, 107, 3, 99, 99, 99, 99, 99, 99, 99, 105, 105, 105, 73, 71, 7, 5, 107, 3, 101, 101, 101, 106, 106, 69, 15,
    101, 101, 101, 101, 101, 106, 106, 69, 5, 107, 3, 99, 99, 99, 99, 99, 99, 99, 105, 105, 105, 73, 71, 7, 5, 107, 3, 99, 99, 99,
    99, 99, 99, 99, 99, 99, 105, 71, 9, 71, 11, 71, 11, 105, 105, 73, 71, 3, 107, 107, 11, 105, 105, 73, 71, 3, 109, 111, 5, 101,
    101, 109, 109, 75, 5, 101, 101, 101, 101, 109, 108, 108, 69, 5, 107, 3, 99, 99, 99, 99, 99, 99, 99, 105, 105, 105, 73, 71, 7, 5,
    107, 3, 99, 99, 99, 99, 99, 99, 99, 99, 99, 105, 71, 9, 71, 11, 71, 11, 105, 105, 73, 71, 3, 107, 107, 11, 105, 105, 73, 71,
    3, 109, 109, 12, 71, 69, 72, 105, 105, 3, 99, 99, 99, 99, 105, 71, 9, 71, 11, 71, 11, 105, 105, 73, 71, 3, 107, 107, 11, 105,
    105, 73, 71, 3, 107, 107, 11, 105, 105, 105, 105, 3, 99, 99, 99, 99, 105, 103, 103, 69, 7, 73, 73, 73, 71, 70, 70, 71, 3, 107,
    107, 11, 105, 105, 73, 71, 3, 109, 111, 5, 101, 101, 109, 109, 75, 5, 101, 101, 101, 101, 109, 108, 108, 69, 5, 107, 3, 99, 99, 99,
    99, 99, 99, 99, 105, 105, 105, 73, 71, 7, 5, 107, 3, 99, 99, 99, 99, 99, 99, 99, 99, 99, 105, 71, 9, 71, 11, 71, 11, 105,
    105, 73, 71, 3, 107, 107, 11, 105, 105, 73, 71, 3, 109, 109, 12, 71, 69, 72, 105, 105, 3, 99, 99, 99, 99, 105, 71, 9, 71, 11,
    71, 11, 105, 105, 73, 71, 3, 107, 107, 11, 105, 105, 73, 71, 3, 107, 107, 11, 105, 105, 105, 105, 3, 99, 99, 99, 99, 105, 103, 103,
    69, 7, 73, 73, 73, 71, 70, 70, 71, 3, 107, 107, 11, 105, 105, 73, 71, 3, 109, 109, 12, 71, 69, 72, 105, 105, 3, 99, 99, 99,
    99, 105, 71, 9, 71, 11, 71, 11, 105, 105, 73, 71, 3, 107, 107, 11, 105, 105, 73, 71, 3, 107, 107, 11, 105, 105, 105, 105, 3, 99,
    99, 99, 99, 105, 103, 103, 69, 7, 73, 73, 73, 71, 70, 70, 71, 3, 107, 107, 11, 105, 105, 73, 71, 3, 107, 107, 11, 105, 105, 105,
    105, 3, 99, 99, 99, 99, 105, 103, 103, 69, 7, 73, 73, 73, 71, 70, 70, 71, 3, 107, 107, 10, 69, 67, 70, 103, 102, 4, 71, 3,
    105, 9, 103, 103, 103, 102, 4, 71, 3, 105, 9, 103, 103, 103, 103, 7, 103, 103, 103, 101, 101, 101, 101, 103, 5, 73, 75, 75, 73, 73,
    73, 73, 3, 109, 111, 5, 101, 101, 106, 106, 69, 15, 101, 101, 101, 101, 101, 106, 106, 69, 5, 107, 3, 99, 99, 99, 99, 99, 99, 99,
    105, 105, 105, 73, 71, 7, 5, 107, 3, 99, 99, 99, 99, 99, 99, 99, 99, 99, 105, 71, 9, 71, 11, 71, 11, 105, 105, 73, 71, 3,
    107, 107, 11, 105, 105, 73, 71, 3, 109, 109, 12, 71, 69, 72, 105, 105, 3, 99, 99, 99, 99, 105, 71, 9, 71, 11, 71, 11, 105, 105,
    73, 71, 3, 107, 107, 11, 105, 105, 73, 71, 3, 107, 107, 11, 105, 105, 105, 105, 3, 99, 99, 99, 99, 105, 103, 103, 69, 7, 73, 73,
    73, 71, 70, 70, 71, 3, 107, 107, 11, 105, 105, 73, 71, 3, 109, 109, 12, 71, 69, 72, 105, 105, 3, 99, 99, 99, 99, 105, 71, 9,
    71, 11, 71, 11, 105, 105, 73, 71, 3, 107, 107, 11, 105, 105, 73, 71, 3, 107, 107, 11, 105, 105, 105, 105, 3, 99, 99, 99, 99, 105,
    103, 103, 69, 7, 73, 73, 73, 71, 70, 70, 71, 3, 107, 107, 11, 105, 105, 73, 71, 3, 107, 107, 11, 105, 105, 105, 105, 3, 99, 99,
    99, 99, 105, 103, 103, 69, 7, 73, 73, 73, 71, 70, 70, 71, 3, 107, 107, 10, 69, 67, 70, 103, 102, 4, 71, 3, 105, 9, 103, 103,
    103, 102, 4, 71, 3, 105, 9, 103, 103, 103, 103, 7, 103, 103, 103, 101, 101, 101, 101, 103, 5, 73, 75, 75, 73, 73, 73, 73, 3, 109,
    3, 99, 99, 99, 99, 99, 99, 99, 99, 99, 105, 71, 9, 71, 11, 71, 11, 105, 105, 73, 71, 3, 107, 107, 11, 105, 105, 73, 71, 3,
    107, 107, 11, 105, 105, 105, 105, 3, 99, 99, 99, 99, 105, 103, 103, 69, 7, 73, 73, 73, 71, 70, 70, 71, 3, 107, 107, 11, 105, 105,
    73, 71, 3, 107, 107, 11, 105, 105, 105, 105, 3, 99, 99, 99, 99, 105, 103, 103, 69, 7, 73, 73, 73, 71, 70, 70, 71, 3, 107, 107,
    10, 69, 67, 70, 103, 102, 4, 71, 3, 105, 9, 103, 103, 103, 102, 4, 71, 3, 105, 9, 103, 103, 103, 103, 7, 103, 103, 103, 101, 101,
    101, 101, 103, 5, 73, 75, 75, 73, 73, 73, 73, 3, 107, 107, 105, 105, 105, 105, 3, 99, 99, 99, 99, 105, 103, 103, 69, 7, 73, 73,
    73, 71, 70, 70, 71, 3, 107, 107, 10, 69, 67, 70, 103, 102, 4, 71, 3, 105, 9, 103, 103, 103, 102, 4, 71, 3, 105, 9, 103, 103,
    103, 103, 7, 103, 103, 103, 101, 101, 100, 100, 102, 4, 71, 3, 107, 10, 69, 67, 70, 103, 102, 4, 71, 3, 105, 9, 103, 103, 103, 102,
    4, 71, 3, 105, 9, 103, 103, 103, 103, 7, 103, 103, 103, 101, 101, 100, 100, 102, 4, 71, 3, 105, 6, 67, 100, 5, 69, 100, 2, 71,
    1, 71, 69, 101, 3, 101, 100, 2, 71, 1, 71, 69, 101, 3, 101, 101, 5, 69, 101, 101, 99, 99, 99, 99, 101, 3, 71, 73, 1, 67,
    109, 103, 1, 71, 73, 9, 73, 115, 73, 73, 73, 75, 73, 79, 77, 17, 79, 9, 73, 113, 73, 79, 113, 17, 113, 9, 80, 78, 105, 77,
    9, 75, 115, 75, 75, 75, 83, 115, 9, 83, 81, 76, 9, 112, 7, 74, 11, 7, 71, 74, 10, 15, 103, 71, 71, 71, 106, 71, 109, 5,
    103, 76, 71, 71, 3, 71, 111, 76, 71, 75, 7, 71, 111, 71, 77, 111, 15, 111, 7, 78, 76, 103, 75, 7, 71, 111, 71, 76, 76, 107,
    7, 76, 74, 73, 5, 69, 107, 11, 77, 77, 109, 5, 113, 17, 71, 71, 71, 73, 71, 77, 111, 15, 111, 7, 78, 76, 103, 75, 7, 71,
    111, 71, 76, 76, 107, 7, 76, 74, 73, 5, 69, 107, 11, 77, 77, 109, 5, 81, 81, 77, 7, 71, 111, 71, 77, 111, 15, 111, 7, 78,
    76, 103, 75, 7, 71, 111, 71, 76, 76, 107, 7, 76, 74, 73, 5, 69, 107, 11, 77, 77, 109, 5, 81, 79, 75, 14, 78, 107, 7, 76,
    74, 73, 5, 69, 107, 11, 77, 77, 109, 5, 79, 77, 77, 73, 5, 69, 107, 11, 77, 75, 107, 107, 5, 77, 73, 13, 77, 75, 107, 107,
    5, 111, 15, 7, 78, 76, 103, 75, 15, 113, 7, 71, 71, 71, 111, 71, 76, 76, 107, 7, 76, 74, 73, 5, 69, 107, 11, 77, 77, 109,
    5, 81, 79, 75, 14, 78, 107, 7, 76, 74, 73, 5, 69, 107, 11, 77, 77, 109, 5, 79, 77, 77, 73, 5, 69, 107, 11, 77, 75, 107,
    107, 5, 77, 73, 13, 77, 75, 107, 107, 5, 79, 77, 7, 71, 111, 71, 76, 76, 107, 17, 71, 71, 71, 73, 71, 76, 76, 107, 7, 76,
    74, 73, 5, 69, 107, 11, 77, 77, 109, 5, 81, 79, 75, 14, 78, 107, 7, 76, 74, 73, 5, 69, 107, 11, 77, 77, 109, 5, 79, 77,
    77, 73, 5, 69, 107, 11, 77, 75, 107, 107, 5, 77, 73, 13, 77, 75, 107, 107, 5, 79, 75, 14, 103, 74, 103, 77, 73, 5, 69, 107,
    11, 77, 75, 107, 107, 9, 5, 74, 72, 71, 9, 75, 75, 73, 5, 69, 107, 10, 71, 69, 72, 73, 73, 105, 7, 107, 107, 105, 105, 104,
    104, 107, 9, 5, 74, 72, 70, 8, 107, 5, 75, 70, 8, 107, 5, 75, 73, 71, 9, 73, 73, 71, 9, 107, 109, 13, 111, 15, 7, 78,
    76, 103, 75, 7, 71, 111, 71, 76, 76, 107, 17, 71, 71, 71, 73, 71, 76, 76, 107, 7, 76, 74, 73, 5, 69, 107, 11, 77, 77, 109,
    5, 81, 79, 75, 14, 78, 107, 7, 76, 74, 73, 5, 69, 107, 11, 77, 77, 109, 5, 79, 77, 77, 73, 5, 69, 107, 11, 77, 75, 107,
    107, 5, 77, 73, 13, 77, 75, 107, 107, 5, 79, 75, 14, 103, 74, 103, 77, 73, 5, 69, 107, 11, 77, 75, 107, 107, 9, 5, 74, 72,
    71, 9, 75, 75, 73, 5, 69, 107, 10, 71, 69, 72, 73, 73, 105, 7, 107, 107, 105, 105, 104, 104, 107, 9, 5, 74, 72, 70, 8, 107,
    5, 75, 70, 8, 107, 5, 75, 73, 71, 9, 73, 73, 71, 9, 107, 109, 5, 103, 81, 73, 73, 73, 111, 5, 71, 113, 71, 71, 71, 73,
    71, 77, 111, 15, 113, 7, 81, 79, 75, 11, 14, 76, 103, 75, 7, 71, 3, 71, 113, 71, 75, 7, 71, 71, 73, 71, 77, 111, 15, 111,
    7, 78, 76, 103, 75, 7, 71, 111, 71, 76, 76, 107, 7, 76, 74, 73, 5, 69, 107, 11, 77, 77, 109, 5, 81, 81, 77, 7, 71, 111,
    71, 77, 111, 15, 111, 7, 78, 76, 103, 75, 7, 71, 111, 71, 76, 76, 107, 7, 76, 74, 73, 5, 69, 107, 11, 77, 77, 109, 5, 81,
    79, 75, 14, 78, 107, 7, 76, 74, 73, 5, 69, 107, 11, 77, 77, 109, 5, 79, 77, 77, 73, 5, 69, 107, 11, 77, 75, 107, 107, 5,
    77, 73, 13, 77, 75, 107, 107, 5, 79, 77, 7, 71, 111, 71, 76, 76, 107, 17, 71, 71, 71, 73, 71, 76, 76, 107, 7, 76, 74, 73,
    5, 69, 107, 11, 77, 77, 109, 5, 81, 79, 75, 14, 78, 107, 7, 76, 74, 73, 5, 69, 107, 11, 77, 77, 109, 5, 79, 77, 77, 73,
    5, 69, 107, 11, 77, 75, 107, 107, 5, 77, 73, 13, 77, 75, 107, 107, 5, 79, 75, 14, 103, 74, 103, 77, 73, 5, 69, 107, 11, 77,
    75, 107, 107, 9, 5, 74, 72, 71, 9, 75, 75, 73, 5, 69, 107, 10, 71, 69, 72, 73, 73, 105, 7, 107, 107, 105, 105, 104, 104, 107,
    9, 5, 74, 72, 70, 8, 107, 5, 75, 70, 8, 107, 5, 75, 73, 71, 9, 73, 73, 71, 9, 107, 109, 5, 103, 81, 73, 73, 81, 113,
    7, 81, 79, 75, 7, 71, 71, 109, 5, 78, 76, 103, 75, 7, 71, 71, 109, 5, 76, 74, 101, 77, 73, 5, 69, 107, 5, 78, 76, 103,
    75, 7, 71, 71, 109, 5, 76, 74, 101, 77, 73, 5, 69, 107, 5, 76, 74, 101, 77, 73, 5, 69, 107, 11, 77, 75, 107, 107, 5, 77,
    73, 12, 74, 107, 5, 75, 73, 71, 9, 75, 75, 75, 73, 72, 72, 73, 9, 7, 71, 71, 71, 77, 109, 5, 76, 74, 101, 73, 13, 77,
    75, 75, 73, 5, 69, 107, 5, 76, 74, 101, 77, 73, 5, 69, 107, 11, 77, 75, 107, 107, 5, 77, 73, 12, 74, 107, 5, 75, 73, 71,
    9, 75, 75, 75, 73, 72, 72, 73, 5, 69, 107, 5, 78, 76, 103, 75, 7, 71, 71, 109, 5, 76, 74, 101, 77, 73, 5, 69, 107, 5,
    76, 74, 101, 77, 73, 5, 69, 107, 11, 77, 75, 107, 107, 5, 77, 73, 12, 74, 107, 5, 75, 73, 71, 9, 75, 75, 75, 73, 72, 72,
    73, 9, 7, 69, 69, 69, 75, 107, 10, 71, 69, 72, 73, 73, 105, 7, 105, 105, 9, 75, 77, 77, 77, 75, 75, 75, 75, 5, 69, 69,
    77, 75, 107, 10, 69, 69, 71, 69, 69, 69, 72, 73, 73, 105, 7, 107, 107, 105, 105, 104, 104, 107, 5, 77, 73, 12, 74, 107, 5, 75,
    70, 8, 107, 5, 75, 73, 71, 9, 73, 70, 8, 107, 5, 75, 73, 71, 9, 73, 73, 71, 9, 73, 73, 73, 71, 71, 71, 71, 9, 75,
    77, 77, 75, 75, 75, 75, 5, 71, 73, 81, 79, 79, 77, 109, 5, 71, 73, 73, 113, 73, 73, 73, 81, 113, 7, 81, 79, 75, 7, 71,
    3, 71, 113, 71, 75, 7, 71, 71, 73, 71, 77, 111, 15, 111, 7, 78, 76, 103, 75, 7, 71, 111, 71, 76, 76, 107, 7, 76, 74, 73,
    5, 69, 107, 11, 77, 77, 109, 5, 81, 81, 77, 7, 71, 111, 71, 77, 111, 15, 111, 7, 78, 76, 103, 75, 7, 71, 111, 71, 76, 76,
    107, 7, 76, 74, 73, 5, 69, 107, 11, 77, 77, 109, 5, 81, 79, 75, 14, 78, 107, 7, 76, 74, 73, 5, 69, 107, 11, 77, 77, 109,
    5, 79, 77, 77, 73, 5, 69, 107, 11, 77, 75, 107, 107, 5, 77, 73, 13, 77, 75, 107, 107, 5, 79, 77, 7, 71, 111, 71, 76, 76,
    107, 17, 71, 71, 71, 73, 71, 76, 76, 107, 7, 76, 74, 73, 5, 69, 107, 11, 77, 77, 109, 5, 81, 79, 75, 14, 78, 107, 7, 76,
    74, 73, 5, 69, 107, 11, 77, 77, 109, 5, 79, 77, 77, 73, 5, 69, 107, 11, 77, 75, 107, 107, 5, 77, 73, 13, 77, 75, 107, 107,
    5, 79, 75, 14, 103, 74, 103, 77, 73, 5, 69, 107, 11, 77, 75, 107, 107, 9, 5, 74, 72, 71, 9, 75, 75, 73, 5, 69, 107, 10,
    71, 69, 72, 73, 73, 105, 7, 107, 107, 105, 105, 104, 104, 107, 9, 5, 74, 72, 70, 8, 107, 5, 75, 70, 8, 107, 5, 75, 73, 71,
    9, 73, 73, 71, 9, 107, 109, 5, 103, 81, 73, 73, 81, 113, 7, 81, 79, 75, 7, 71, 71, 109, 5, 78, 76, 103, 75, 7, 71, 71,
    109, 5, 76, 74, 101, 77, 73, 5, 69, 107, 5, 78, 76, 103, 75, 7, 71, 71, 109, 5, 76, 74, 101, 77, 73, 5, 69, 107, 5, 76,
    74, 101, 77, 73, 5, 69, 107, 11, 77, 75, 107, 107, 5, 77, 73, 12, 74, 107, 5, 75, 73, 71, 9, 75, 75, 75, 73, 72, 72, 73,
    9, 7, 71, 71, 71, 77, 109, 5, 76, 74, 101, 73, 13, 77, 75, 75, 73, 5, 69, 107, 5, 76, 74, 101, 77, 73, 5, 69, 107, 11,
    77, 75, 107, 107, 5, 77, 73, 12, 74, 107, 5, 75, 73, 71, 9, 75, 75, 75, 73, 72, 72, 73, 5, 69, 107, 5, 78, 76, 103, 75,
    7, 71, 71, 109, 5, 76, 74, 101, 77, 73, 5, 69, 107, 5, 76, 74, 101, 77, 73, 5, 69, 107, 11, 77, 75, 107, 107, 5, 77, 73,
    12, 74, 107, 5, 75, 73, 71, 9, 75, 75, 75, 73, 72, 72, 73, 9, 7, 69, 69, 69, 75, 107, 10, 71, 69, 72, 73, 73, 105, 7,
    105, 105, 9, 75, 77, 77, 77, 75, 75, 75, 75, 5, 69, 69, 77, 75, 107, 10, 69, 69, 71, 69, 69, 69, 72, 73, 73, 105, 7, 107,
    107, 105, 105, 104, 104, 107, 5, 77, 73, 12, 74, 107, 5, 75, 70, 8, 107, 5, 75, 73, 71, 9, 73, 70, 8, 107, 5, 75, 73, 71,
    9, 73, 73, 71, 9, 73, 73, 73, 71, 71, 71, 71, 9, 75, 77, 77, 75, 75, 75, 75, 5, 79, 113, 7, 79, 75, 7, 71, 71, 109,
    5, 78, 76, 103, 75, 7, 71, 71, 109, 5, 76, 74, 101, 77, 73, 5, 69, 107, 5, 78, 76, 103, 75, 7, 71, 71, 109, 5, 76, 74,
    101, 77, 73, 5, 69, 107, 5, 76, 74, 101, 77, 73, 5, 69, 107, 11, 77, 75, 107, 107, 5, 77, 73, 12, 74, 107, 5, 75, 73, 71,
    9, 75, 75, 75, 73, 72, 72, 73, 9, 7, 71, 71, 71, 77, 109, 5, 76, 74, 101, 73, 13, 77, 75, 75, 73, 5, 69, 107, 5, 76,
    74, 101, 77, 73, 5, 69, 107, 11, 77, 75, 107, 107, 5, 77, 73, 12, 74, 107, 5, 75, 73, 71, 9, 75, 75, 75, 73, 72, 72, 73,
    5, 69, 107, 5, 78, 76, 103, 75, 7, 71, 71, 109, 5, 76, 74, 101, 77, 73, 5, 69, 107, 5, 76, 74, 101, 77, 73, 5, 69, 107,
    11, 77, 75, 107, 107, 5, 77, 73, 12, 74, 107, 5, 75, 73, 71, 9, 75, 75, 75, 73, 72, 72, 73, 9, 7, 69, 69, 69, 75, 107,
    10, 71, 69, 72, 73, 73, 105, 7, 105, 105, 9, 75, 77, 77, 77, 75, 75, 75, 75, 5, 69, 69, 77, 75, 107, 10, 69, 69, 71, 69,
    69, 69, 72, 73, 73, 105, 7, 107, 107, 105, 105, 104, 104, 107, 5, 77, 73, 12, 74, 107, 5, 75, 70, 8, 107, 5, 75, 73, 71, 9,
    73, 70, 8, 107, 5, 75, 73, 71, 9, 73, 73, 71, 9, 73, 73, 73, 71, 71, 71, 71, 9, 75, 77, 77, 75, 75, 75, 75, 5, 71,
    71, 79, 77, 108, 12, 76, 14, 99, 66, 3, 98, 99, 105, 7, 11, 3, 99, 99, 99, 105, 71, 11, 75, 71, 3, 107, 107, 11, 105, 105,
    73, 71, 3, 109, 109, 12, 71, 69, 72, 105, 105, 3, 99, 99, 99, 99, 105, 71, 9, 71, 11, 71, 11, 105, 105, 73, 71, 3, 107, 107,
    11, 105, 105, 73, 71, 3, 109, 109, 12, 71, 69, 72, 105, 105, 3, 99, 99, 99, 99, 105, 71, 9, 71, 11, 71, 11, 105, 105, 73, 71,
    3, 107, 107, 11, 105, 105, 73, 71, 3, 107, 107, 11, 105, 105, 105, 105, 3, 99, 99, 99, 99, 105, 103, 103, 69, 7, 73, 73, 73, 71,
    70, 70, 71, 3, 107, 107, 11, 105, 105, 73, 71, 3, 109, 109, 12, 71, 69, 72, 105, 105, 3, 99, 99, 99, 99, 105, 71, 9, 71, 11,
    71, 11, 105, 105, 73, 71, 3, 107, 107, 11, 105, 105, 73, 71, 3, 107, 107, 11, 105, 105, 105, 105, 3, 99, 99, 99, 99, 105, 103, 103,
    69, 7, 73, 73, 73, 71, 70, 70, 71, 3, 107, 107, 11, 105, 105, 73, 71, 3, 107, 107, 11, 105, 105, 105, 105, 3, 99, 99, 99, 99,
    105, 103, 103, 69, 7, 73, 73, 73, 71, 70, 70, 71, 3, 107, 107, 10, 69, 67, 70, 103, 102, 4, 71, 3, 105, 9, 103, 103, 103, 102,
    4, 71, 3, 105, 9, 103, 103, 103, 103, 7, 103, 103, 103, 101, 101, 101, 101, 103, 5, 73, 75, 75, 73, 73, 73, 73, 3, 109, 111, 109,
    109, 109, 109, 1, 71, 71, 7, 71, 113, 71, 71, 71, 71, 109, 5, 78, 76, 103, 75, 7, 71, 3, 71, 113, 71, 75, 7, 71, 71, 73,
    71, 77, 111, 15, 111, 7, 78, 76, 103, 75, 7, 71, 111, 71, 76, 76, 107, 7, 76, 74, 73, 5, 69, 107, 11, 77, 77, 109, 5, 81,
    81, 77, 7, 71, 111, 71, 77, 111, 15, 111, 7, 78, 76, 103, 75, 7, 71, 111, 71, 76, 76, 107, 7, 76, 74, 73, 5, 69, 107, 11,
    77, 77, 109, 5, 81, 79, 75, 14, 78, 107, 7, 76, 74, 73, 5, 69, 107, 11, 77, 77, 109, 5, 79, 77, 77, 73, 5, 69, 107, 11,
    77, 75, 107, 107, 5, 77, 73, 13, 77, 75, 107, 107, 5, 79, 77, 7, 71, 111, 71, 76, 76, 107, 17, 71, 71, 71, 73, 71, 76, 76,
    107, 7, 76, 74, 73, 5, 69, 107, 11, 77, 77, 109, 5, 81, 79, 75, 14, 78, 107, 7, 76, 74, 73, 5, 69, 107, 11, 77, 77, 109,
    5, 79, 77, 77, 73, 5, 69, 107, 11, 77, 75, 107, 107, 5, 77, 73, 13, 77, 75, 107, 107, 5, 79, 75, 14, 103, 74, 103, 77, 73,
    5, 69, 107, 11, 77, 75, 107, 107, 9, 5, 74, 72, 71, 9, 75, 75, 73, 5, 69, 107, 10, 71, 69, 72, 73, 73, 105, 7, 107, 107,
    105, 105, 104, 104, 107, 9, 5, 74, 72, 70, 8, 107, 5, 75, 70, 8, 107, 5, 75, 73, 71, 9, 73, 73, 71, 9, 107, 109, 5, 103,
    81, 73, 73, 81, 113, 7, 81, 79, 75, 7, 71, 71, 109, 5, 78, 76, 103, 75, 7, 71, 71, 109, 5, 76, 74, 101, 77, 73, 5, 69,
    107, 5, 78, 76, 103, 75, 7, 71, 71, 109, 5, 76, 74, 101, 77, 73, 5, 69, 107, 5, 76, 74, 101, 77, 73, 5, 69, 107, 11, 77,
    75, 107, 107, 5, 77, 73, 12, 74, 107, 5, 75, 73, 71, 9, 75, 75, 75, 73, 72, 72, 73, 9, 7, 71, 71, 71, 77, 109, 5, 76,
    74, 101, 73, 13, 77, 75, 75, 73, 5, 69, 107, 5, 76, 74, 101, 77, 73, 5, 69, 107, 11, 77, 75, 107, 107, 5, 77, 73, 12, 74,
    107, 5, 75, 73, 71, 9, 75, 75, 75, 73, 72, 72, 73, 5, 69, 107, 5, 78, 76, 103, 75, 7, 71, 71, 109, 5, 76, 74, 101, 77,
    73, 5, 69, 107, 5, 76, 74, 101, 77, 73, 5, 69, 107, 11, 77, 75, 107, 107, 5, 77, 73, 12, 74, 107, 5, 75, 73, 71, 9, 75,
    75, 75, 73, 72, 72, 73, 9, 7, 69, 69, 69, 75, 107, 10, 71, 69, 72, 73, 73, 105, 7, 105, 105, 9, 75, 77, 77, 77, 75, 75,
    75, 75, 5, 69, 69, 77, 75, 107, 10, 69, 69, 71, 69, 69, 69, 72, 73, 73, 105, 7, 107, 107, 105, 105, 104, 104, 107, 5, 77, 73,
    12, 74, 107, 5, 75, 70, 8, 107, 5, 75, 73, 71, 9, 73, 70, 8, 107, 5, 75, 73, 71, 9, 73, 73, 71, 9, 73, 73, 73, 71,
    71, 71, 71, 9, 75, 77, 77, 75, 75, 75, 75, 5, 79, 113, 7, 79, 75, 7, 71, 71, 109, 5, 78, 76, 103, 75, 7, 71, 71, 109,
    5, 76, 74, 101, 77, 73, 5, 69, 107, 5, 78, 76, 103, 75, 7, 71, 71, 109, 5, 76, 74, 101, 77, 73, 5, 69, 107, 5, 76, 74,
    101, 77, 73, 5, 69, 107, 11, 77, 75, 107, 107, 5, 77, 73, 12, 74, 107, 5, 75, 73, 71, 9, 75, 75, 75, 73, 72, 72, 73, 9,
    7, 71, 71, 71, 77, 109, 5, 76, 74, 101, 73, 13, 77, 75, 75, 73, 5, 69, 107, 5, 76, 74, 101, 77, 73, 5, 69, 107, 11, 77,
    75, 107, 107, 5, 77, 73, 12, 74, 107, 5, 75, 73, 71, 9, 75, 75, 75, 73, 72, 72, 73, 5, 69, 107, 5, 78, 76, 103, 75, 7,
    71, 71, 109, 5, 76, 74, 101, 77, 73, 5, 69, 107, 5, 76, 74, 101, 77, 73, 5, 69, 107, 11, 77, 75, 107, 107, 5, 77, 73, 12,
    74, 107, 5, 75, 73, 71, 9, 75, 75, 75, 73, 72, 72, 73, 9, 7, 69, 69, 69, 75, 107, 10, 71, 69, 72, 73, 73, 105, 7, 105,
    105, 9, 75, 77, 77, 77, 75, 75, 75, 75, 5, 69, 69, 77, 75, 107, 10, 69, 69, 71, 69, 69, 69, 72, 73, 73, 105, 7, 107, 107,
    105, 105, 104, 104, 107, 5, 77, 73, 12, 74, 107, 5, 75, 70, 8, 107, 5, 75, 73, 71, 9, 73, 70, 8, 107, 5, 75, 73, 71, 9,
    73, 73, 71, 9, 73, 73, 73, 71, 71, 71, 71, 9, 75, 77, 77, 75, 75, 75, 75, 5, 71, 71, 79, 77, 108, 12, 76, 14, 99, 66,
    3, 98, 99, 105, 7, 11, 3, 99, 99, 99, 105, 71, 11, 75, 71, 3, 107, 107, 11, 105, 105, 73, 71, 3, 109, 109, 12, 71, 69, 72,
    105, 105, 3, 99, 99, 99, 99, 105, 71, 9, 71, 11, 71, 11, 105, 105, 73, 71, 3, 107, 107, 11, 105, 105, 73, 71, 3, 109, 109, 12,
    71, 69, 72, 105, 105, 3, 99, 99, 99, 99, 105, 71, 9, 71, 11, 71, 11, 105, 105, 73, 71, 3, 107, 107, 11, 105, 105, 73, 71, 3,
    107, 107, 11, 105, 105, 105, 105, 3, 99, 99, 99, 99, 105, 103, 103, 69, 7, 73, 73, 73, 71, 70, 70, 71, 3, 107, 107, 11, 105, 105,
    73, 71, 3, 109, 109, 12, 71, 69, 72, 105, 105, 3, 99, 99, 99, 99, 105, 71, 9, 71, 11, 71, 11, 105, 105, 73, 71, 3, 107, 107,
    11, 105, 105, 73, 71, 3, 107, 107, 11, 105, 105, 105, 105, 3, 99, 99, 99, 99, 105, 103, 103, 69, 7, 73, 73, 73, 71, 70, 70, 71,
    3, 107, 107, 11, 105, 105, 73, 71, 3, 107, 107, 11, 105, 105, 105, 105, 3, 99, 99, 99, 99, 105, 103, 103, 69, 7, 73, 73, 73, 71,
    70, 70, 71, 3, 107, 107, 10, 69, 67, 70, 103, 102, 4, 71, 3, 105, 9, 103, 103, 103, 102, 4, 71, 3, 105, 9, 103, 103, 103, 103,
    7, 103, 103, 103, 101, 101, 101, 101, 103, 5, 73, 75, 75, 73, 73, 73, 73, 3, 109, 111, 109, 109, 109, 109, 1, 99, 67, 3, 101, 101,
    101, 101, 101, 101, 109, 109, 5, 101, 101, 106, 106, 69, 15, 103, 103, 103, 103, 103, 108, 71, 108, 71, 111, 5, 101, 101, 109, 109, 75, 5,
    101, 101, 101, 101, 109, 108, 108, 69, 5, 107, 3, 99, 99, 99, 99, 99, 99, 99, 105, 105, 105, 73, 71, 7, 5, 107, 3, 101, 101, 101,
    106, 106, 69, 15, 101, 101, 101, 101, 101, 106, 106, 69, 5, 107, 3, 99, 99, 99, 99, 99, 99, 99, 105, 105, 105, 73, 71, 7, 5, 107,
    3, 99, 99, 99, 99, 99, 99, 99, 99, 99, 105, 71, 9, 71, 11, 71, 11, 105, 105, 73, 71, 3, 107, 107, 11, 105, 105, 73, 71, 3,
    109, 111, 5, 101, 101, 109, 109, 75, 5, 101, 101, 101, 101, 109, 108, 108, 69, 5, 107, 3, 99, 99, 99, 99, 99, 99, 99, 105, 105, 105,
    73, 71, 7, 5, 107, 3, 99, 99, 99, 99, 99, 99, 99, 99, 99, 105, 71, 9, 71, 11, 71, 11, 105, 105, 73, 71, 3, 107, 107, 11,
    105, 105, 73, 71, 3, 109, 109, 12, 71, 69, 72, 105, 105, 3, 99, 99, 99, 99, 105, 71, 9, 71, 11, 71, 11, 105, 105, 73, 71, 3,
    107, 107, 11, 105, 105, 73, 71, 3, 107, 107, 11, 105, 105, 105, 105, 3, 99, 99, 99, 99, 105, 103, 103, 69, 7, 73, 73, 73, 71, 70,
    70, 71, 3, 107, 107, 11, 105, 105, 73, 71, 3, 109, 111, 5, 101, 101, 109, 109, 75, 5, 101, 101, 101, 101, 109, 108, 108, 69, 5, 107,
    3, 99, 99, 99, 99, 99, 99, 99, 105, 105, 105, 73, 71, 7, 5, 107, 3, 99, 99, 99, 99, 99, 99, 99, 99, 99, 105, 71, 9, 71,
    11, 71, 11, 105, 105, 73, 71, 3, 107, 107, 11, 105, 105, 73, 71, 3, 109, 109, 12, 71, 69, 72, 105, 105, 3, 99, 99, 99, 99, 105,
    71, 9, 71, 11, 71, 11, 105, 105, 73, 71, 3, 107, 107, 11, 105, 105, 73, 71, 3, 107, 107, 11, 105, 105, 105, 105, 3, 99, 99, 99,
    99, 105, 103, 103, 69, 7, 73, 73, 73, 71, 70, 70, 71, 3, 107, 107, 11, 105, 105, 73, 71, 3, 109, 109, 12, 71, 69, 72, 105, 105,
    3, 99, 99, 99, 99, 105, 71, 9, 71, 11, 71, 11, 105, 105, 73, 71, 3, 107, 107, 11, 105, 105, 73, 71, 3, 107, 107, 11, 105, 105,
    105, 105, 3, 99, 99, 99, 99, 105, 103, 103, 69, 7, 73, 73, 73, 71, 70, 70, 71, 3, 107, 107, 11, 105, 105, 73, 71, 3, 107, 107,
    11, 105, 105, 105, 105, 3, 99, 99, 99, 99, 105, 103, 103, 69, 7, 73, 73, 73, 71, 70, 70, 71, 3, 107, 107, 10, 69, 67, 70, 103,
    102, 4, 71, 3, 105, 9, 103, 103, 103, 102, 4, 71, 3, 105, 9, 103, 103, 103, 103, 7, 103, 103, 103, 101, 101, 101, 101, 103, 5, 73,
    75, 75, 73, 73, 73, 73, 3, 109, 111, 5, 101, 101, 106, 106, 69, 15, 101, 101, 101, 101, 101, 106, 106, 69, 5, 107, 3, 99, 99, 99,
    99, 99, 99, 99, 105, 105, 105, 73, 71, 7, 5, 107, 3, 99, 99, 99, 99, 99, 99, 99, 99, 99, 105, 71, 9, 71, 11, 71, 11, 105,
    105, 73, 71, 3, 107, 107, 11, 105, 105, 73, 71, 3, 109, 109, 12, 71, 69, 72, 105, 105, 3, 99, 99, 99, 99, 105, 71, 9, 71, 11,
    71, 11, 105, 105, 73, 71, 3, 107, 107, 11, 105, 105, 73, 71, 3, 107, 107, 11, 105, 105, 105, 105, 3, 99, 99, 99, 99, 105, 103, 103,
    69, 7, 73, 73, 73, 71, 70, 70, 71, 3, 107, 107, 11, 105, 105, 73, 71, 3, 109, 109, 12, 71, 69, 72, 105, 105, 3, 99, 99, 99,
    99, 105, 71, 9, 71, 11, 71, 11, 105, 105, 73, 71, 3, 107, 107, 11, 105, 105, 73, 71, 3, 107, 107, 11, 105, 105, 105, 105, 3, 99,
    99, 99, 99, 105, 103, 103, 69, 7, 73, 73, 73, 71, 70, 70, 71, 3, 107, 107, 11, 105, 105, 73, 71, 3, 107, 107, 11, 105, 105, 105,
    105, 3, 99, 99, 99, 99, 105, 103, 103, 69, 7, 73, 73, 73, 71, 70, 70, 71, 3, 107, 107, 10, 69, 67, 70, 103, 102, 4, 71, 3,
    105, 9, 103, 103, 103, 102, 4, 71, 3, 105, 9, 103, 103, 103, 103, 7, 103, 103, 103, 101, 101, 101, 101, 103, 5, 73, 75, 75, 73, 73,
    73, 73, 3, 109, 3, 99, 99, 99, 99, 99, 99, 99, 99, 99, 105, 71, 9, 71, 11, 71, 11, 105, 105, 73, 71, 3, 107, 107, 11, 105,
    105, 73, 71, 3, 107, 107, 11, 105, 105, 105, 105, 3, 99, 99, 99, 99, 105, 103, 103, 69, 7, 73, 73, 73, 71, 70, 70, 71, 3, 107,
    107, 11, 105, 105, 73, 71, 3, 107, 107, 11, 105, 105, 105, 105, 3, 99, 99, 99, 99, 105, 103, 103, 69, 7, 73, 73, 73, 71, 70, 70,
    71, 3, 107, 107, 10, 69, 67, 70, 103, 102, 4, 71, 3, 105, 9, 103, 103, 103, 102, 4, 71, 3, 105, 9, 103, 103, 103, 103, 7, 103,
    103, 103, 101, 101, 101, 101, 103, 5, 73, 75, 75, 73, 73, 73, 73, 3, 107, 107, 105, 105, 105, 105, 3, 99, 99, 99, 99, 105, 103, 103,
    69, 7, 73, 73, 73, 71, 70, 70, 71, 3, 107, 107, 10, 69, 67, 70, 103, 102, 4, 71, 3, 105, 9, 103, 103, 103, 102, 4, 71, 3,
    105, 9, 103, 103, 103, 103, 7, 103, 103, 103, 101, 101, 100, 100, 102, 4, 71, 3, 107, 10, 69, 67, 70, 103, 102, 4, 71, 3, 105, 9,
    103, 103, 103, 102, 4, 71, 3, 105, 9, 103, 103, 103, 103, 7, 103, 103, 103, 101, 101, 100, 100, 102, 4, 71, 3, 105, 6, 67, 100, 5,
    69, 100, 2, 71, 1, 71, 69, 101, 3, 101, 100, 2, 71, 1, 71, 69, 101, 3, 101, 101, 5, 69, 101, 101, 99, 99, 99, 99, 101, 3,
    71, 73, 1, 67, 109, 103, 1, 71, 71, 7, 71, 113, 71, 71, 71, 3, 71, 113, 71, 75, 7, 71, 71, 73, 71, 77, 111, 15, 111, 7,
    78, 76, 103, 75, 7, 73, 113, 73, 73, 73, 81, 113, 7, 81, 79, 75, 7, 71, 71, 109, 5, 78, 76, 103, 75, 7, 71, 71, 109, 5,
    76, 74, 101, 77, 73, 5, 69, 107, 5, 78, 78, 105, 77, 7, 71, 111, 71, 77, 111, 15, 111, 7, 78, 76, 103, 75, 7, 71, 111, 71,
    76, 76, 107, 7, 76, 74, 73, 5, 69, 107, 11, 77, 77, 109, 5, 81, 79, 75, 14, 78, 107, 7, 76, 74, 73, 5, 69, 107, 11, 77,
    77, 109, 5, 79, 77, 77, 73, 5, 69, 107, 11, 77, 75, 107, 107, 5, 77, 73, 13, 77, 75, 107, 107, 5, 79, 77, 7, 71, 111, 71,
    76, 76, 107, 17, 71, 71, 71, 73, 71, 76, 76, 107, 7, 76, 74, 73, 5, 69, 107, 11, 77, 77, 109, 5, 81, 79, 75, 14, 78, 107,
    7, 76, 74, 73, 5, 69, 107, 11, 77, 77, 109, 5, 79, 77, 77, 73, 5, 69, 107, 11, 77, 75, 107, 107, 5, 77, 73, 13, 77, 75,
    107, 107, 5, 79, 75, 14, 103, 74, 103, 77, 73, 5, 69, 107, 11, 77, 75, 107, 107, 9, 5, 74, 72, 71, 9, 75, 75, 73, 5, 69,
    107, 10, 71, 69, 72, 73, 73, 105, 7, 107, 107, 105, 105, 104, 104, 107, 9, 5, 74, 72, 70, 8, 107, 5, 75, 70, 8, 107, 5, 75,
    73, 71, 9, 73, 73, 71, 9, 107, 109, 5, 103, 81, 73, 73, 81, 113, 7, 81, 79, 75, 7, 71, 71, 109, 5, 78, 76, 103, 75, 7,
    71, 71, 109, 5, 76, 74, 101, 77, 73, 5, 69, 107, 5, 78, 76, 103, 75, 7, 71, 71, 109, 5, 76, 74, 101, 77, 73, 5, 69, 107,
    5, 76, 74, 101, 77, 73, 5, 69, 107, 11, 77, 75, 107, 107, 5, 77, 73, 12, 74, 107, 5, 75, 73, 71, 9, 75, 75, 75, 73, 72,
    72, 73, 9, 7, 71, 71, 71, 77, 109, 5, 76, 74, 101, 73, 13, 77, 75, 75, 73, 5, 69, 107, 5, 76, 74, 101, 77, 73, 5, 69,
    107, 11, 77, 75, 107, 107, 5, 77, 73, 12, 74, 107, 5, 75, 73, 71, 9, 75, 75, 75, 73, 72, 72, 73, 5, 69, 107, 5, 78, 76,
    103, 75, 7, 71, 71, 109, 5, 76, 74, 101, 77, 73, 5, 69, 107, 5, 76, 74, 101, 77, 73, 5, 69, 107, 11, 77, 75, 107, 107, 5,
    77, 73, 12, 74, 107, 5, 75, 73, 71, 9, 75, 75, 75, 73, 72, 72, 73, 9, 7, 69, 69, 69, 75, 107, 10, 71, 69, 72, 73, 73,
    105, 7, 105, 105, 9, 75, 77, 77, 77, 75, 75, 75, 75, 5, 69, 69, 77, 75, 107, 10, 69, 69, 71, 69, 69, 69, 72, 73, 73, 105,
    7, 107, 107, 105, 105, 104, 104, 107, 5, 77, 73, 12, 74, 107, 5, 75, 70, 8, 107, 5, 75, 73, 71, 9, 73, 70, 8, 107, 5, 75,
    73, 71, 9, 73, 73, 71, 9, 73, 73, 73, 71, 71, 71, 71, 9, 75, 77, 77, 75, 75, 75, 75, 5, 79, 113, 7, 79, 75, 7, 71,
    71, 109, 5, 78, 76, 103, 75, 7, 71, 71, 109, 5, 76, 74, 101, 77, 73, 5, 69, 107, 5, 78, 76, 103, 75, 7, 71, 71, 109, 5,
    76, 74, 101, 77, 73, 5, 69, 107, 5, 76, 74, 101, 77, 73, 5, 69, 107, 11, 77, 75, 107, 107, 5, 77, 73, 12, 74, 107, 5, 75,
    73, 71, 9, 75, 75, 75, 73, 72, 72, 73, 9, 7, 71, 71, 71, 77, 109, 5, 76, 74, 101, 73, 13, 77, 75, 75, 73, 5, 69, 107,
    5, 76, 74, 101, 77, 73, 5, 69, 107, 11, 77, 75, 107, 107, 5, 77, 73, 12, 74, 107, 5, 75, 73, 71, 9, 75, 75, 75, 73, 72,
    72, 73, 5, 69, 107, 5, 78, 76, 103, 75, 7, 71, 71, 109, 5, 76, 74, 101, 77, 73, 5, 69, 107, 5, 76, 74, 101, 77, 73, 5,
    69, 107, 11, 77, 75, 107, 107, 5, 77, 73, 12, 74, 107, 5, 75, 73, 71, 9, 75, 75, 75, 73, 72, 72, 73, 9, 7, 69, 69, 69,
    75, 107, 10, 71, 69, 72, 73, 73, 105, 7, 105, 105, 9, 75, 77, 77, 77, 75, 75, 75, 75, 5, 69, 69, 77, 75, 107, 10, 69, 69,
    71, 69, 69, 69, 72, 73, 73, 105, 7, 107, 107, 105, 105, 104, 104, 107, 5, 77, 73, 12, 74, 107, 5, 75, 70, 8, 107, 5, 75, 73,
    71, 9, 73, 70, 8, 107, 5, 75, 73, 71, 9, 73, 73, 71, 9, 73, 73, 73, 71, 71, 71, 71, 9, 75, 77, 77, 75, 75, 75, 75,
    5, 71, 71, 79, 77, 108, 12, 76, 14, 99, 66, 3, 98, 99, 105, 7, 11, 3, 99, 99, 99, 105, 71, 11, 75, 71, 3, 107, 107, 11,
    105, 105, 73, 71, 3, 109, 109, 12, 71, 69, 72, 105, 105, 3, 99, 99, 99, 99, 105, 71, 9, 71, 11, 71, 11, 105, 105, 73, 71, 3,
    107, 107, 11, 105, 105, 73, 71, 3, 109, 109, 12, 71, 69, 72, 105, 105, 3, 99, 99, 99, 99, 105, 71, 9, 71, 11, 71, 11, 105, 105,
    73, 71, 3, 107, 107, 11, 105, 105, 73, 71, 3, 107, 107, 11, 105, 105, 105, 105, 3, 99, 99, 99, 99, 105, 103, 103, 69, 7, 73, 73,
    73, 71, 70, 70, 71, 3, 107, 107, 11, 105, 105, 73, 71, 3, 109, 109, 12, 71, 69, 72, 105, 105, 3, 99, 99, 99, 99, 105, 71, 9,
    71, 11, 71, 11, 105, 105, 73, 71, 3, 107, 107, 11, 105, 105, 73, 71, 3, 107, 107, 11, 105, 105, 105, 105, 3, 99, 99, 99, 99, 105,
    103, 103, 69, 7, 73, 73, 73, 71, 70, 70, 71, 3, 107, 107, 11, 105, 105, 73, 71, 3, 107, 107, 11, 105, 105, 105, 105, 3, 99, 99,
    99, 99, 105, 103, 103, 69, 7, 73, 73, 73, 71, 70, 70, 71, 3, 107, 107, 10, 69, 67, 70, 103, 102, 4, 71, 3, 105, 9, 103, 103,
    103, 102, 4, 71, 3, 105, 9, 103, 103, 103, 103, 7, 103, 103, 103, 101, 101, 101, 101, 103, 5, 73, 75, 75, 73, 73, 73, 73, 3, 109,
    111, 109, 109, 109, 109, 1, 99, 67, 3, 101, 101, 101, 101, 101, 101, 109, 109, 5, 101, 101, 106, 106, 69, 15, 103, 103, 103, 103, 103, 108,
    71, 108, 71, 111, 5, 101, 101, 109, 109, 75, 5, 101, 101, 101, 101, 109, 108, 108, 69, 5, 107, 3, 99, 99, 99, 99, 99, 99, 99, 105,
    105, 105, 73, 71, 7, 5, 107, 3, 101, 101, 101, 106, 106, 69, 15, 101, 101, 101, 101, 101, 106, 106, 69, 5, 107, 3, 99, 99, 99, 99,
    99, 99, 99, 105, 105, 105, 73, 71, 7, 5, 107, 3, 99, 99, 99, 99, 99, 99, 99, 99, 99, 105, 71, 9, 71, 11, 71, 11, 105, 105,
    73, 71, 3, 107, 107, 11, 105, 105, 73, 71, 3, 109, 111, 5, 101, 101, 109, 109, 75, 5, 101, 101, 101, 101, 109, 108, 108, 69, 5, 107,
    3, 99, 99, 99, 99, 99, 99, 99, 105, 105, 105, 73, 71, 7, 5, 107, 3, 99, 99, 99, 99, 99, 99, 99, 99, 99, 105, 71, 9, 71,
    11, 71, 11, 105, 105, 73, 71, 3, 107, 107, 11, 105, 105, 73, 71, 3, 109, 109, 12, 71, 69, 72, 105, 105, 3, 99, 99, 99, 99, 105,
    71, 9, 71, 11, 71, 11, 105, 105, 73, 71, 3, 107, 107, 11, 105, 105, 73, 71, 3, 107, 107, 11, 105, 105, 105, 105, 3, 99, 99, 99,
    99, 105, 103, 103, 69, 7, 73, 73, 73, 71, 70, 70, 71, 3, 107, 107, 11, 105, 105, 73, 71, 3, 109, 111, 5, 101, 101, 109, 109, 75,
    5, 101, 101, 101, 101, 109, 108, 108, 69, 5, 107, 3, 99, 99, 99, 99, 99, 99, 99, 105, 105, 105, 73, 71, 7, 5, 107, 3, 99, 99,
    99, 99, 99, 99, 99, 99, 99, 105, 71, 9, 71, 11, 71, 11, 105, 105, 73, 71, 3, 107, 107, 11, 105, 105, 73, 71, 3, 109, 109, 12,
    71, 69, 72, 105, 105, 3, 99, 99, 99, 99, 105, 71, 9, 71, 11, 71, 11, 105, 105, 73, 71, 3, 107, 107, 11, 105, 105, 73, 71, 3,
    107, 107, 11, 105, 105, 105, 105, 3, 99, 99, 99, 99, 105, 103, 103, 69, 7, 73, 73, 73, 71, 70, 70, 71, 3, 107, 107, 11, 105, 105,
    73, 71, 3, 109, 109, 12, 71, 69, 72, 105, 105, 3, 99, 99, 99, 99, 105, 71, 9, 71, 11, 71, 11, 105, 105, 73, 71, 3, 107, 107,
    11, 105, 105, 73, 71, 3, 107, 107, 11, 105, 105, 105, 105, 3, 99, 99, 99, 99, 105, 103, 103, 69, 7, 73, 73, 73, 71, 70, 70, 71,
    3, 107, 107, 11, 105, 105, 73, 71, 3, 107, 107, 11, 105, 105, 105, 105, 3, 99, 99, 99, 99, 105, 103, 103, 69, 7, 73, 73, 73, 71,
    70, 70, 71, 3, 107, 107, 10, 69, 67, 70, 103, 102, 4, 71, 3, 105, 9, 103, 103, 103, 102, 4, 71, 3, 105, 9, 103, 103, 103, 103,
    7, 103, 103, 103, 101, 101, 101, 101, 103, 5, 73, 75, 75, 73, 73, 73, 73, 3, 109, 111, 5, 101, 101, 106, 106, 69, 15, 101, 101, 101,
    101, 101, 106, 106, 69, 5, 107, 3, 99, 99, 99, 99, 99, 99, 99, 105, 105, 105, 73, 71, 7, 5, 107, 3, 99, 99, 99, 99, 99, 99,
    99, 99, 99, 105, 71, 9, 71, 11, 71, 11, 105, 105, 73, 71, 3, 107, 107, 11, 105, 105, 73, 71, 3, 109, 109, 12, 71, 69, 72, 105,
    105, 3, 99, 99, 99, 99, 105, 71, 9, 71, 11, 71, 11, 105, 105, 73, 71, 3, 107, 107, 11, 105, 105, 73, 71, 3, 107, 107, 11, 105,
    105, 105, 105, 3, 99, 99, 99, 99, 105, 103, 103, 69, 7, 73, 73, 73, 71, 70, 70, 71, 3, 107, 107, 11, 105, 105, 73, 71, 3, 109,
    109, 12, 71, 69, 72, 105, 105, 3, 99, 99, 99, 99, 105, 71, 9, 71, 11, 71, 11, 105, 105, 73, 71, 3, 107, 107, 11, 105, 105, 73,
    71, 3, 107, 107, 11, 105, 105, 105, 105, 3, 99, 99, 99, 99, 105, 103, 103, 69, 7, 73, 73, 73, 71, 70, 70, 71, 3, 107, 107, 11,
    105, 105, 73, 71, 3, 107, 107, 11, 105, 105, 105, 105, 3, 99, 99, 99, 99, 105, 103, 103, 69, 7, 73, 73, 73, 71, 70, 70, 71, 3,
    107, 107, 10, 69, 67, 70, 103, 102, 4, 71, 3, 105, 9, 103, 103, 103, 102, 4, 71, 3, 105, 9, 103, 103, 103, 103, 7, 103, 103, 103,
    101, 101, 101, 101, 103, 5, 73, 75, 75, 73, 73, 73, 73, 3, 109, 3, 99, 99, 99, 99, 99, 99, 99, 99, 99, 105, 71, 9, 71, 11,
    71, 11, 105, 105, 73, 71, 3, 107, 107, 11, 105, 105, 73, 71, 3, 107, 107, 11, 105, 105, 105, 105, 3, 99, 99, 99, 99, 105, 103, 103,
    69, 7, 73, 73, 73, 71, 70, 70, 71, 3, 107, 107, 11, 105, 105, 73, 71, 3, 107, 107, 11, 105, 105, 105, 105, 3, 99, 99, 99, 99,
    105, 103, 103, 69, 7, 73, 73, 73, 71, 70, 70, 71, 3, 107, 107, 10, 69, 67, 70, 103, 102, 4, 71, 3, 105, 9, 103, 103, 103, 102,
    4, 71, 3, 105, 9, 103, 103, 103, 103, 7, 103, 103, 103, 101, 101, 101, 101, 103, 5, 73, 75, 75, 73, 73, 73, 73, 3, 107, 107, 105,
    105, 105, 105, 3, 99, 99, 99, 99, 105, 103, 103, 69, 7, 73, 73, 73, 71, 70, 70, 71, 3, 107, 107, 10, 69, 67, 70, 103, 102, 4,
    71, 3, 105, 9, 103, 103, 103, 102, 4, 71, 3, 105, 9, 103, 103, 103, 103, 7, 103, 103, 103, 101, 101, 100, 100, 102, 4, 71, 3, 107,
    10, 69, 67, 70, 103, 102, 4, 71, 3, 105, 9, 103, 103, 103, 102, 4, 71, 3, 105, 9, 103, 103, 103, 103, 7, 103, 103, 103, 101, 101,
    100, 100, 102, 4, 71, 3, 105, 6, 67, 100, 5, 69, 100, 2, 71, 1, 71, 69, 101, 3, 101, 100, 2, 71, 1, 71, 69, 101, 3, 101,
    101, 5, 69, 101, 101, 99, 99, 99, 99, 101, 3, 71, 73, 1, 67, 109, 103, 1, 99, 67, 3, 101, 101, 101, 101, 101, 101, 109, 109, 5,
    103, 103, 108, 71, 108, 71, 111, 5, 101, 101, 109, 109, 75, 5, 103, 103, 103, 103, 111, 111, 5, 101, 101, 107, 73, 13, 73, 5, 109, 5,
    101, 101, 101, 101, 109, 108, 108, 69, 5, 107, 3, 99, 99, 99, 99, 99, 99, 99, 105, 105, 105, 73, 71, 7, 5, 107, 3, 101, 101, 101,
    106, 106, 69, 15, 101, 101, 101, 101, 101, 106, 106, 69, 5, 107, 3, 99, 99, 99, 99, 99, 99, 99, 105, 105, 105, 73, 71, 7, 5, 107,
    3, 99, 99, 99, 99, 99, 99, 99, 99, 99, 105, 71, 9, 71, 11, 71, 11, 105, 105, 73, 71, 3, 107, 107, 11, 105, 105, 73, 71, 3,
    109, 111, 5, 101, 101, 109, 109, 75, 5, 101, 101, 101, 101, 109, 108, 108, 69, 5, 107, 3, 99, 99, 99, 99, 99, 99, 99, 105, 105, 105,
    73, 71, 7, 5, 107, 3, 99, 99, 99, 99, 99, 99, 99, 99, 99, 105, 71, 9, 71, 11, 71, 11, 105, 105, 73, 71, 3, 107, 107, 11,
    105, 105, 73, 71, 3, 109, 109, 12, 71, 69, 72, 105, 105, 3, 99, 99, 99, 99, 105, 71, 9, 71, 11, 71, 11, 105, 105, 73, 71, 3,
    107, 107, 11, 105, 105, 73, 71, 3, 107, 107, 11, 105, 105, 105, 105, 3, 99, 99, 99, 99, 105, 103, 103, 69, 7, 73, 73, 73, 71, 70,
    70, 71, 3, 107, 107, 11, 105, 105, 73, 71, 3, 109, 111, 5, 101, 101, 109, 109, 75, 5, 101, 101, 101, 101, 109, 108, 108, 69, 5, 107,
    3, 99, 99, 99, 99, 99, 99, 99, 105, 105, 105, 73, 71, 7, 5, 107, 3, 99, 99, 99, 99, 99, 99, 99, 99, 99, 105, 71, 9, 71,
    11, 71, 11, 105, 105, 73, 71, 3, 107, 107, 11, 105, 105, 73, 71, 3, 109, 109, 12, 71, 69, 72, 105, 105, 3, 99, 99, 99, 99, 105,
    71, 9, 71, 11, 71, 11, 105, 105, 73, 71, 3, 107, 107, 11, 105, 105, 73, 71, 3, 107, 107, 11, 105, 105, 105, 105, 3, 99, 99, 99,
    99, 105, 103, 103, 69, 7, 73, 73, 73, 71, 70, 70, 71, 3, 107, 107, 11, 105, 105, 73, 71, 3, 109, 109, 12, 71, 69, 72, 105, 105,
    3, 99, 99, 99, 99, 105, 71, 9, 71, 11, 71, 11, 105, 105, 73, 71, 3, 107, 107, 11, 105, 105, 73, 71, 3, 107, 107, 11, 105, 105,
    105, 105, 3, 99, 99, 99, 99, 105, 103, 103, 69, 7, 73, 73, 73, 71, 70, 70, 71, 3, 107, 107, 11, 105, 105, 73, 71, 3, 107, 107,
    11, 105, 105, 105, 105, 3, 99, 99, 99, 99, 105, 103, 103, 69, 7, 73, 73, 73, 71, 70, 70, 71, 3, 107, 107, 10, 69, 67, 70, 103,
    102, 4, 71, 3, 105, 9, 103, 103, 103, 102, 4, 71, 3, 105, 9, 103, 103, 103, 103, 7, 103, 103, 103, 101, 101, 101, 101, 103, 5, 73,
    75, 75, 73, 73, 73, 73, 3, 109, 111, 5, 101, 101, 106, 106, 69, 15, 101, 101, 101, 101, 101, 106, 106, 69, 5, 107, 3, 99, 99, 99,
    99, 99, 99, 99, 105, 105, 105, 73, 71, 7, 5, 107, 3, 99, 99, 99, 99, 99, 99, 99, 99, 99, 105, 71, 9, 71, 11, 71, 11, 105,
    105, 73, 71, 3, 107, 107, 11, 105, 105, 73, 71, 3, 109, 109, 12, 71, 69, 72, 105, 105, 3, 99, 99, 99, 99, 105, 71, 9, 71, 11,
    71, 11, 105, 105, 73, 71, 3, 107, 107, 11, 105, 105, 73, 71, 3, 107, 107, 11, 105, 105, 105, 105, 3, 99, 99, 99, 99, 105, 103, 103,
    69, 7, 73, 73, 73, 71, 70, 70, 71, 3, 107, 107, 11, 105, 105, 73, 71, 3, 109, 109, 12, 71, 69, 72, 105, 105, 3, 99, 99, 99,
    99, 105, 71, 9, 71, 11, 71, 11, 105, 105, 73, 71, 3, 107, 107, 11, 105, 105, 73, 71, 3, 107, 107, 11, 105, 105, 105, 105, 3, 99,
    99, 99, 99, 105, 103, 103, 69, 7, 73, 73, 73, 71, 70, 70, 71, 3, 107, 107, 11, 105, 105, 73, 71, 3, 107, 107, 11, 105, 105, 105,
    105, 3, 99, 99, 99, 99, 105, 103, 103, 69, 7, 73, 73, 73, 71, 70, 70, 71, 3, 107, 107, 10, 69, 67, 70, 103, 102, 4, 71, 3,
    105, 9, 103, 103, 103, 102, 4, 71, 3, 105, 9, 103, 103, 103, 103, 7, 103, 103, 103, 101, 101, 101, 101, 103, 5, 73, 75, 75, 73, 73,
    73, 73, 3, 109, 3, 99, 99, 99, 99, 99, 99, 99, 99, 99, 105, 71, 9, 71, 11, 71, 11, 105, 105, 73, 71, 3, 107, 107, 11, 105,
    105, 73, 71, 3, 107, 107, 11, 105, 105, 105, 105, 3, 99, 99, 99, 99, 105, 103, 103, 69, 7, 73, 73, 73, 71, 70, 70, 71, 3, 107,
    107, 11, 105, 105, 73, 71, 3, 107, 107, 11, 105, 105, 105, 105, 3, 99, 99, 99, 99, 105, 103, 103, 69, 7, 73, 73, 73, 71, 70, 70,
    71, 3, 107, 107, 10, 69, 67, 70, 103, 102, 4, 71, 3, 105, 9, 103, 103, 103, 102, 4, 71, 3, 105, 9, 103, 103, 103, 103, 7, 103,
    103, 103, 101, 101, 101, 101, 103, 5, 73, 75, 75, 73, 73, 73, 73, 3, 107, 107, 105, 105, 105, 105, 3, 99, 99, 99, 99, 105, 103, 103,
    69, 7, 73, 73, 73, 71, 70, 70, 71, 3, 107, 107, 10, 69, 67, 70, 103, 102, 4, 71, 3, 105, 9, 103, 103, 103, 102, 4, 71, 3,
    105, 9, 103, 103, 103, 103, 7, 103, 103, 103, 101, 101, 100, 100, 102, 4, 71, 3, 107, 10, 69, 67, 70, 103, 102, 4, 71, 3, 105, 9,
    103, 103, 103, 102, 4, 71, 3, 105, 9, 103, 103, 103, 103, 7, 103, 103, 103, 101, 101, 100, 100, 102, 4, 71, 3, 105, 6, 67, 100, 5,
    69, 100, 2, 71, 1, 71, 69, 101, 3, 101, 100, 2, 71, 1, 71, 69, 101, 3, 101, 101, 5, 69, 101, 101, 99, 99, 99, 99, 101, 3,
    71, 73, 1, 67, 109, 111, 5, 101, 101, 107, 73, 13, 73, 5, 109, 5, 101, 101, 101, 101, 109, 108, 108, 69, 5, 107, 3, 99, 99, 99,
    99, 99, 99, 99, 105, 105, 105, 73, 71, 7, 5, 107, 3, 99, 99, 99, 99, 99, 99, 99, 99, 99, 105, 71, 9, 71, 11, 71, 11, 105,
    105, 73, 71, 3, 107, 107, 11, 105, 105, 73, 71, 3, 109, 109, 12, 71, 69, 72, 105, 105, 3, 99, 99, 99, 99, 105, 71, 9, 71, 11,
    71, 11, 105, 105, 73, 71, 3, 107, 107, 11, 105, 105, 73, 71, 3, 107, 107, 11, 105, 105, 105, 105, 3, 99, 99, 99, 99, 105, 103, 103,
    69, 7, 73, 73, 73, 71, 70, 70, 71, 3, 107, 107, 11, 105, 105, 73, 71, 3, 109, 109, 12, 71, 69, 72, 105, 105, 3, 99, 99, 99,
    99, 105, 71, 9, 71, 11, 71, 11, 105, 105, 73, 71, 3, 107, 107, 11, 105, 105, 73, 71, 3, 107, 107, 11, 105, 105, 105, 105, 3, 99,
    99, 99, 99, 105, 103, 103, 69, 7, 73, 73, 73, 71, 70, 70, 71, 3, 107, 107, 11, 105, 105, 73, 71, 3, 107, 107, 11, 105, 105, 105,
    105, 3, 99, 99, 99, 99, 105, 103, 103, 69, 7, 73, 73, 73, 71, 70, 70, 71, 3, 107, 107, 10, 69, 67, 70, 103, 102, 4, 71, 3,
    105, 9, 103, 103, 103, 102, 4, 71, 3, 105, 9, 103, 103, 103, 103, 7, 103, 103, 103, 101, 101, 101, 101, 103, 5, 73, 75, 75, 73, 73,
    73, 73, 3, 109, 3, 99, 99, 99, 99, 99, 99, 99, 99, 99, 105, 71, 9, 71, 11, 71, 11, 105, 105, 73, 71, 3, 107, 107, 11, 105,
    105, 73, 71, 3, 107, 107, 11, 105, 105, 105, 105, 3, 99, 99, 99, 99, 105, 103, 103, 69, 7, 73, 73, 73, 71, 70, 70, 71, 3, 107,
    107, 11, 105, 105, 73, 71, 3, 107, 107, 11, 105, 105, 105, 105, 3, 99, 99, 99, 99, 105, 103, 103, 69, 7, 73, 73, 73, 71, 70, 70,
    71, 3, 107, 107, 10, 69, 67, 70, 103, 102, 4, 71, 3, 105, 9, 103, 103, 103, 102, 4, 71, 3, 105, 9, 103, 103, 103, 103, 7, 103,
    103, 103, 101, 101, 101, 101, 103, 5, 73, 75, 75, 73, 73, 73, 73, 3, 107, 107, 105, 105, 105, 105, 3, 99, 99, 99, 99, 105, 103, 103,
    69, 7, 73, 73, 73, 71, 70, 70, 71, 3, 107, 107, 10, 69, 67, 70, 103, 102, 4, 71, 3, 105, 9, 103, 103, 103, 102, 4, 71, 3,
    105, 9, 103, 103, 103, 103, 7, 103, 103, 103, 101, 101, 100, 100, 102, 4, 71, 3, 107, 10, 69, 67, 70, 103, 102, 4, 71, 3, 105, 9,
    103, 103, 103, 102, 4, 71, 3, 105, 9, 103, 103, 103, 103, 7, 103, 103, 103, 101, 101, 100, 100, 102, 4, 71, 3, 105, 6, 67, 100, 5,
    69, 100, 2, 71, 1, 71, 69, 101, 3, 101, 100, 2, 71, 1, 71, 69, 101, 3, 101, 101, 5, 69, 101, 101, 99, 99, 99, 99, 101, 3,
    71, 73, 1, 67, 109, 3, 99, 99, 99, 105, 71, 11, 75, 71, 3, 107, 107, 11, 105, 105, 73, 71, 3, 107, 107, 11, 105, 105, 105, 105,
    3, 99, 99, 99, 99, 105, 103, 103, 69, 7, 73, 73, 73, 71, 70, 70, 71, 7, 5, 105, 8, 69, 67, 70, 103, 102, 4, 71, 3, 105,
    9, 103, 103, 103, 103, 7, 105, 75, 75, 75, 73, 73, 73, 73, 3, 107, 107, 105, 105, 105, 105, 3, 99, 99, 99, 99, 105, 103, 103, 69,
    7, 73, 73, 73, 71, 70, 70, 71, 3, 107, 107, 10, 69, 67, 70, 103, 102, 4, 71, 3, 105, 9, 103, 103, 103, 102, 4, 71, 3, 105,
    9, 103, 103, 103, 103, 7, 103, 103, 103, 101, 101, 101, 101, 103, 5, 73, 75, 75, 73, 73, 73, 73, 3, 107, 107, 105, 105, 105, 105, 3,
    99, 99, 99, 99, 105, 103, 103, 69, 7, 73, 73, 73, 71, 70, 70, 71, 3, 107, 107, 10, 69, 67, 70, 103, 102, 4, 71, 3, 105, 9,
    103, 103, 103, 102, 4, 71, 3, 105, 9, 103, 103, 103, 103, 7, 103, 103, 103, 101, 101, 100, 100, 102, 4, 71, 3, 107, 10, 69, 67, 70,
    103, 102, 4, 71, 3, 105, 9, 103, 103, 103, 102, 4, 71, 3, 105, 9, 103, 103, 103, 103, 7, 103, 103, 103, 101, 101, 100, 100, 102, 4,
    71, 3, 105, 6, 67, 100, 5, 69, 100, 2, 71, 1, 71, 69, 101, 3, 101, 100, 2, 71, 1, 71, 69, 101, 3, 101, 101, 5, 69, 101,
    101, 99, 99, 99, 99, 101, 3, 71, 73, 1, 67, 107, 99, 99, 99, 99, 99, 99, 105, 73, 68, 6, 105, 3, 71, 10, 99, 99, 103, 70,
    71, 69, 7, 73, 73, 73, 71, 70, 70, 71, 3, 107, 107, 10, 69, 67, 70, 103, 102, 4, 71, 3, 105, 9, 103, 103, 103, 102, 4, 71,
    3, 105, 9, 103, 103, 103, 103, 7, 103, 103, 103, 101, 101, 100, 100, 102, 4, 71, 3, 107, 10, 69, 67, 70, 103, 102, 4, 71, 3, 105,
    9, 103, 103, 103, 102, 4, 71, 3, 105, 9, 103, 103, 103, 103, 7, 103, 103, 103, 101, 101, 100, 100, 102, 4, 71, 3, 105, 6, 67, 100,
    5, 69, 100, 2, 71, 1, 71, 69, 101, 3, 101, 100, 2, 71, 1, 71, 69, 101, 3, 101, 101, 5, 69, 101, 101, 99, 99, 99, 99, 101,
    3, 71, 73, 1, 65, 65, 65, 65, 105, 65, 65, 65, 65, 101, 2, 65, 65, 65, 100, 5, 71, 1, 103, 6, 67, 68, 65, 71, 69, 101,
    3, 101, 100, 2, 71, 1, 105, 8, 67, 68, 65, 103, 6, 67, 68, 65, 71, 69, 101, 3, 101, 100, 2, 71, 1, 71, 69, 101, 3, 101,
    101, 5, 69, 101, 101, 99, 99, 98, 98, 100, 2, 71, 1, 105, 8, 67, 68, 65, 103, 6, 67, 68, 65, 71, 69, 101, 3, 101, 100, 2,
    71, 1, 71, 69, 101, 3, 101, 101, 5, 69, 101, 101, 99, 99, 98, 98, 100, 2, 71, 1, 71, 69, 101, 3, 101, 101, 5, 69, 101, 101,
    99, 99, 98, 98, 100, 2, 69, 3, 3, 99, 3, 99, 99, 99, 3, 99, 99, 99, 97, 97, 97, 97, 99, 1, 69, 71, 73, 1, 107, 101,
    103, 1, 99, 71, 75
  >>

PlayLen == Len(Play)

PlayAction(k) == Play[k] \div 32

PlayDraw(k) == [idx |-> (Play[k] % 32) \div 2, four |-> Play[k] % 2 = 1]

\* Steps taken so far: reset draws twice per tile (lines 44-45), every step
\* of the play once per tile.
PlayPos == (rng.pos - 4) \div 2

\* The opening of the play: reset spawns a 4 in each of the first two cells.
PlayOpening ==
    LET first == [idx |-> 0, four |-> TRUE]
        r == ResetSpawns(4, [seed |-> NoSeed, pos |-> 0], first, first)
    IN  [board |-> r.board, drawn |-> r.rng.pos]

InitPlay ==
    /\ Construct(4, NoSeed)
    /\ line = <<>>
    /\ applied = FALSE
    /\ new_line = <<>>
    /\ gained = 0
    /\ Alone

\* reset() with the opening of the play.
PlayReset ==
    /\ op = "init"
    /\ constructed
    /\ LET res == ResetResult(rng, NoSeed, PlayOpening)
       IN  /\ board' = res.board
           /\ done' = res.done
           /\ rng' = res.rng
           /\ obs' = res.obs
    /\ op' = "reset"
    /\ err' = FALSE
    /\ was_done' = done
    /\ act' = 0
    /\ reward' = 0
    /\ terminated' = FALSE
    /\ moved' = FALSE
    /\ UNCHANGED <<constructed, board_size, line_vars, pair_vars, caller_vars>>

\* step(action) with the next action and draw of the play.
PlayStep ==
    /\ constructed
    /\ op # "init"
    /\ ~done
    /\ PlayPos < PlayLen
    /\ LET action == PlayAction(PlayPos + 1)
           d == PlayDraw(PlayPos + 1)
       IN  /\ ~StepRaises(action)
           /\ move(board, board_size, action).board # board
           /\ d \in StepDraws(board, board_size, done, action)
           /\ Takes(StepResult(board, board_size, rng, action, d))
           /\ act' = action
    /\ op' = "step"
    /\ err' = FALSE
    /\ was_done' = done
    /\ UNCHANGED <<constructed, board_size, line_vars, pair_vars, caller_vars>>

NextPlay == PlayReset \/ PlayStep

SpecPlay == InitPlay /\ [][NextPlay]_vars


\* Line 28: high = 2 ** 16, the upper bound of the declared observation space.
ObservationHigh == 65536

\* Lines 29, 34: dtype = np.int32, the largest value a cell can hold.
Int32Max == 2147483647

\* ---------------------------------------- reference definitions (the spec)

\* A line without its zeros, the other tiles in their order.
RECURSIVE ZeroFree(_)
ZeroFree(s) ==
    IF s = <<>> THEN <<>>
    ELSE IF Head(s) = 0 THEN ZeroFree(Tail(s))
    ELSE <<Head(s)>> \o ZeroFree(Tail(s))

\* Greedy merging of a zero-free sequence from its head: an equal pair becomes
\* its sum and the scan goes on after the pair.
RECURSIVE GreedyMerge(_)
GreedyMerge(s) ==
    IF Len(s) < 2 THEN s
    ELSE IF s[1] = s[2]
         THEN <<s[1] + s[2]>> \o GreedyMerge(SubSeq(s, 3, Len(s)))
         ELSE <<s[1]>> \o GreedyMerge(Tail(s))

\* The values of the tiles those merges produce, summed.
RECURSIVE GreedyGain(_)
GreedyGain(s) ==
    IF Len(s) < 2 THEN 0
    ELSE IF s[1] = s[2]
         THEN s[1] + s[2] + GreedyGain(SubSeq(s, 3, Len(s)))
         ELSE GreedyGain(Tail(s))

\* The number of those merges.
RECURSIVE GreedyCount(_)
GreedyCount(s) ==
    IF Len(s) < 2 THEN 0
    ELSE IF s[1] = s[2]
         THEN 1 + GreedyCount(SubSeq(s, 3, Len(s)))
         ELSE GreedyCount(Tail(s))

RightPad(s, n) == s \o [i \in 1..(n - Len(s)) |-> 0]

\* The line transform of the specification: compact, merge, pad.
RefTransform(l) == RightPad(GreedyMerge(ZeroFree(l)), Len(l))

\* Row r and column c of a board, from index 0 on.
RowOf(b, n, r) == [i \in 1..n |-> b[<<r, i - 1>>]]

ColOf(b, n, c) == [i \in 1..n |-> b[<<i - 1, c>>]]

\* Line k of board b in the direction of action a, from the moving edge on:
\* 0 = Up, 1 = Down, 2 = Left, 3 = Right.
EdgeLine(b, n, a, k) ==
    CASE a = 0 -> ColOf(b, n, k)
      [] a = 1 -> Reverse(ColOf(b, n, k))
      [] a = 2 -> RowOf(b, n, k)
      [] a = 3 -> Reverse(RowOf(b, n, k))

\* The values of the tiles the merges of a move produce, over all its lines.
MergeSum(b, n, a) ==
    SeqSum([k \in 1..n |-> GreedyGain(ZeroFree(EdgeLine(b, n, a, k - 1)))])

\* The number of those merges.
MergeCount(b, n, a) ==
    SeqSum([k \in 1..n |-> GreedyCount(ZeroFree(EdgeLine(b, n, a, k - 1)))])

\* The move changes no row or column.
RefNoOp(b, n, a) ==
    \A k \in 0..(n - 1) :
        RefTransform(EdgeLine(b, n, a, k)) = EdgeLine(b, n, a, k)

\* The board after the move, before any spawn.
RefMoved(b, n, a) ==
    [p \in Cells(n) |->
        CASE a = 0 -> RefTransform(EdgeLine(b, n, a, p[2]))[p[1] + 1]
          [] a = 1 -> RefTransform(EdgeLine(b, n, a, p[2]))[n - p[1]]
          [] a = 2 -> RefTransform(EdgeLine(b, n, a, p[1]))[p[2] + 1]
          [] a = 3 -> RefTransform(EdgeLine(b, n, a, p[1]))[n - p[2]]]

Adjacent(p, q) ==
    \/ p[1] = q[1] /\ (p[2] = q[2] + 1 \/ q[2] = p[2] + 1)
    \/ p[2] = q[2] /\ (p[1] = q[1] + 1 \/ q[1] = p[1] + 1)

\* Full, and no two horizontally or vertically adjacent cells are equal.
RefTerminal(b, n) ==
    /\ \A p \in Cells(n) : b[p] # 0
    /\ \A p, q \in Cells(n) : Adjacent(p, q) => b[p] # b[q]

NonZeroCells(b, n) == {p \in Cells(n) : b[p] # 0}

\* The full 4x4 board [[2,4,2,4],[4,2,4,2],[2,4,2,4],[4,2,4,2]].
Checkerboard == [p \in Cells(4) |-> IF (p[1] + p[2]) % 2 = 0 THEN 2 ELSE 4]

\* step on it with any action returns it unchanged, with terminated = true.
CheckerboardExample ==
    \A a \in 0..3 :
        LET res == StepResult(Checkerboard, 4, [seed |-> NoSeed, pos |-> 0], a,
                              [idx |-> 0, four |-> FALSE])
        IN  res.obs = Checkerboard /\ res.board = Checkerboard /\ res.terminated

\* A call of step that returned, on an engine that was not done.
ActiveStep == op' = "step" /\ ~err' /\ ~done

\* No empty cell of b has a tile behind it, seen from the edge the action
\* names: row 0 for 0 (Up), row n-1 for 1 (Down), column 0 for 2 (Left),
\* column n-1 for 3 (Right).
Packed(b, n, a) ==
    \A p, q \in Cells(n) :
        (/\ b[p] = 0
         /\ CASE a = 0 -> p[2] = q[2] /\ p[1] < q[1]
              [] a = 1 -> p[2] = q[2] /\ p[1] > q[1]
              [] a = 2 -> p[1] = q[1] /\ p[2] < q[2]
              [] a = 3 -> p[1] = q[1] /\ p[2] > q[2]) => b[q] = 0

\* A board mirrored left to right, flipped top to bottom, and transposed.
Mirror(b, n) == [p \in Cells(n) |-> b[<<p[1], n - 1 - p[2]>>]]

Flip(b, n) == [p \in Cells(n) |-> b[<<n - 1 - p[1], p[2]>>]]

Transpose(b, n) == [p \in Cells(n) |-> b[<<p[2], p[1]>>]]

\* Some action of the four changes the board.
LegalMoveRemains(b, n) == \E a \in 0..3 : RefMoved(b, n, a) # b

\* _add_random_tile on a board without an empty cell returns at once: the
\* board and the generator are as they were (every full 2x2 board of 2s and 4s).
FullBoardSpawn ==
    \A b \in [Cells(2) -> {2, 4}] :
        /\ Draws(b, 2) = {NoDraw}
        /\ add_random_tile(b, 2, NoDraw) = b
        /\ Advance([seed |-> NoSeed, pos |-> 0], b, 2).pos = 0

\* The sum of the cells of a board.
BoardSum(b, n) == SeqSum([k \in 1..(n * n) |-> b[<<(k - 1) \div n, (k - 1) % n>>]])

\* v = 2^k for some k >= 1.
RECURSIVE IsPow2(_)
IsPow2(v) == v = 2 \/ (v > 2 /\ v % 2 = 0 /\ IsPow2(v \div 2))

\* The number of nonzero cells of a board.
TileCount(b, n) == Cardinality(NonZeroCells(b, n))

\* ------------------------------------------------------------- the claims

\* C1: the line transform merges greedily from the moving edge and never
\* chains: its result is the zero-free line with each adjacent equal pair,
\* scanned from the head, replaced by one tile of their sum, the scan going on
\* after the pair, and its reward is the sum of the tiles so produced; every
\* input tile is in at most one merge (the tiles out and the merges add up to
\* the tiles in). [2,2,2,2] gives [4,4,0,0] and reward 8; three equal tiles
\* [v,v,v] give [2v,v,0].
C1_NonChaining ==
    applied =>
        /\ new_line = RefTransform(line)
        /\ gained = GreedyGain(ZeroFree(line))
        /\ Len(ZeroFree(new_line)) + GreedyCount(ZeroFree(line))
              = Len(ZeroFree(line))
        /\ line = <<2, 2, 2, 2>> => (new_line = <<4, 4, 0, 0>> /\ gained = 8)
        /\ (Len(line) = 3 /\ line[1] # 0 /\ line[1] = line[2] /\ line[2] = line[3])
              => new_line = <<2 * line[1], line[1], 0>>

C1_Witness ==
    /\ applied
    /\ line = <<2, 2, 2, 2>>
    /\ new_line = <<4, 4, 0, 0>>
    /\ gained = 8

\* C2: the line transform removes the zeros first, keeping the order of the
\* other tiles, then merges, then pads with zeros on the far side: the result
\* has the length of the line, no zero lies before a nonzero tile in it, a line
\* without adjacent equal tiles once compacted comes out as its tiles in
\* order, and two equal tiles that lead the line merge whatever zeros lie
\* between them ([2,0,2,0] and [2,2,0,0] both give [4,0,0,0] and reward 4).
C2_CompactFirst ==
    applied =>
        /\ Len(new_line) = Len(line)
        /\ \A i, j \in 1..Len(new_line) :
              (i < j /\ new_line[i] = 0) => new_line[j] = 0
        /\ GreedyCount(ZeroFree(line)) = 0
              => (ZeroFree(new_line) = ZeroFree(line) /\ gained = 0)
        /\ (Len(ZeroFree(line)) >= 2 /\ ZeroFree(line)[1] = ZeroFree(line)[2])
              => new_line[1] = 2 * ZeroFree(line)[1]
        /\ line \in {<<2, 0, 2, 0>>, <<2, 2, 0, 0>>}
              => (new_line = <<4, 0, 0, 0>> /\ gained = 4)

C2_Witness ==
    /\ applied
    /\ line = <<2, 0, 2, 0>>
    /\ new_line = <<4, 0, 0, 0>>
    /\ gained = 4

\* C3: the reward step returns on an engine that is not terminated is the sum,
\* over all the rows (Left, Right) or columns (Up, Down), of the values of the
\* tiles the merges of that step produce; it is not the number of merges and
\* it is never negative.
C3_Reward ==
    [][ActiveStep =>
          /\ reward' = MergeSum(board, board_size, act')
          /\ reward' >= 0
          /\ MergeCount(board, board_size, act') > 0
                => reward' > MergeCount(board, board_size, act')]_vars

C3_Witness ==
    /\ op = "step" /\ ~err /\ ~was_done
    /\ board_size = 2
    /\ reward = 12

\* C4: a step whose move changes no row or column leaves the board as it was,
\* returns reward 0 and spawns no tile (the generator is not drawn from).
C4_NoOp ==
    [][(ActiveStep /\ RefNoOp(board, board_size, act')) =>
          /\ board' = board
          /\ obs' = board
          /\ reward' = 0
          /\ rng' = rng
          /\ ~moved']_vars

C4_Witness ==
    /\ op = "step" /\ ~err /\ ~was_done /\ ~moved
    /\ \E p \in Cells(board_size) : board[p] # 0
    /\ \E p \in Cells(board_size) : board[p] = 0

\* C5: a step whose move changes the board spawns exactly one tile: the board
\* returned differs from the board after the move in exactly one cell, which
\* was empty after the move and now holds 2 or 4.
C5_OneSpawn ==
    [][(ActiveStep /\ RefMoved(board, board_size, act') # board) =>
          /\ \E p \in Cells(board_size) :
                /\ RefMoved(board, board_size, act')[p] = 0
                /\ board'[p] \in {2, 4}
                /\ \A q \in Cells(board_size) \ {p} :
                      board'[q] = RefMoved(board, board_size, act')[q]
          /\ obs' = board'
          /\ moved']_vars

C5_Witness ==
    /\ op = "step" /\ ~err /\ ~was_done /\ moved
    /\ board_size = 2
    /\ reward > 0

\* C6: the terminated flag a step returns is that of the board it returns: it
\* is false when that board has a zero cell, and on a full board it is true
\* exactly when no two horizontally or vertically adjacent cells are equal
\* (the full 4x4 checkerboard comes back unchanged with terminated = true).
C6_Terminal ==
    /\ (op = "step" /\ ~err) =>
          /\ obs = board
          /\ terminated <=> RefTerminal(obs, board_size)
          /\ (\E p \in Cells(board_size) : obs[p] = 0) => ~terminated
    /\ CheckerboardExample

C6_Witness ==
    /\ op = "step" /\ ~err /\ ~was_done
    /\ board_size = 2
    /\ terminated

\* C7: terminated is sticky: the flag a step returns is the flag the engine
\* keeps, and once it is set every later step leaves the board and the
\* generator as they were and, with a valid action, returns that board,
\* reward 0 and terminated = true; only reset clears the flag.
C7_Sticky ==
    [][/\ (op' = "step" /\ ~err') => terminated' = done'
       /\ (done /\ op' = "step") =>
             /\ done' /\ board' = board /\ rng' = rng
             /\ ~err' => (obs' = board /\ reward' = 0 /\ terminated' /\ ~moved')
       /\ (done /\ ~done') => op' = "reset"]_vars

C7_Witness ==
    /\ op = "step" /\ ~err /\ was_done
    /\ board_size = 2
    /\ terminated /\ reward = 0

\* C8: reset, whatever the state it is called in, on a board of size N >= 2
\* leaves the engine active with a board that is zero but for exactly two
\* cells, each 2 or 4, and returns that board.
C8_Reset ==
    (op = "reset" /\ board_size >= 2) =>
        /\ ~err /\ ~done
        /\ obs = board
        /\ Cardinality(NonZeroCells(board, board_size)) = 2
        /\ \A p \in Cells(board_size) : board[p] \in {0, 2, 4}

C8_Witness ==
    /\ op = "reset" /\ was_done
    /\ board_size = 2
    /\ Cardinality(NonZeroCells(board, board_size)) = 2

\* C9: step with an action outside {0,1,2,3} raises in every state of the
\* engine, and only then, and leaves the board, the terminated flag and the
\* generator as they were.
C9_InvalidAction ==
    [][op' = "step" =>
          /\ err' <=> ~(act' \in {0, 1, 2, 3})
          /\ err' => (board' = board /\ done' = done /\ rng' = rng
                      /\ board_size' = board_size)]_vars

C9_Witness ==
    /\ op = "step" /\ err /\ act = 4
    /\ ~was_done /\ ~done
    /\ rng.pos > 0
    /\ \E p \in Cells(board_size) : board[p] # 0

\* C10: an engine whose board size is <= 1 is never constructed (so never
\* reset or stepped): the constructor fails.
C10_SmallSizeRejected == board_size <= 1 => ~constructed

\* C11: in every state reachable from construction by reset and step calls,
\* every board cell is 0 or 2^k with k >= 1.
C11_TilesArePowers ==
    \A p \in Cells(board_size) : board[p] = 0 \/ IsPow2(board[p])

C11_Witness ==
    /\ op = "step" /\ ~err /\ moved
    /\ \E p \in Cells(board_size) : board[p] = 8
    /\ \E p \in Cells(board_size) : board[p] = 2

\* C12 (as stated): within an episode the number of nonzero cells never
\* decreases from one step to the next.
C12_CountNonDecreasing ==
    [][ActiveStep =>
          TileCount(board', board_size) >= TileCount(board, board_size)]_vars

\* C12 (amended): within an episode the number of nonzero cells decreases
\* across a step only when the step performs two or more merges, and then by
\* at most the number of merges less one (one tile is spawned); a step with at
\* most one merge does not decrease it.
C12_CountDropsOnlyByMerges ==
    [][ActiveStep =>
          /\ MergeCount(board, board_size, act') <= 1
                => TileCount(board', board_size) >= TileCount(board, board_size)
          /\ MergeCount(board, board_size, act') >= 2
                => TileCount(board', board_size)
                     >= TileCount(board, board_size) + 1
                          - MergeCount(board, board_size, act')]_vars

\* A step that merged 2+2 and 4+4 on a full 2x2 board: three tiles are left.
C12_Witness ==
    /\ op = "step" /\ ~err /\ ~was_done /\ moved
    /\ board_size = 2
    /\ reward = 12
    /\ TileCount(board, board_size) = 3

\* C13 (as stated): for any line transform the sum of the output values is
\* the sum of the input values plus the reward of the line.
C13_SumPlusReward ==
    applied => SeqSum(new_line) = SeqSum(line) + gained

\* C13 (amended): for any line transform the sum of the output values equals
\* the sum of the input values, whatever the reward; the reward is the part of
\* that sum held by the merged tiles, so it lies between 0 and the sum.
C13_SumConserved ==
    applied =>
        /\ SeqSum(new_line) = SeqSum(line)
        /\ 0 <= gained /\ gained <= SeqSum(new_line)

C13_Witness ==
    /\ applied
    /\ line = <<2, 2, 0, 4>>
    /\ new_line = <<4, 4, 0, 0>>
    /\ gained = 4
    /\ SeqSum(new_line) = 8

\* C14: two engines that are each reset with the same seed and then given the
\* same actions return the same observations, rewards and terminated flags,
\* whatever the first did before that reset (the second is fresh, and any two
\* engines that each agree with a fresh one agree with each other).
C14_Determinism ==
    phase = "paired" =>
        /\ obs = twin.obs
        /\ reward = twin.reward
        /\ terminated = twin.terminated

\* Both engines merged on a step, after the two spawns of the common reset and
\* two spawning steps, and returned the same board.
C14_Witness ==
    /\ phase = "paired"
    /\ op = "step" /\ moved /\ reward > 0
    /\ rng.pos >= 8
    /\ obs = twin.obs /\ twin.reward > 0

\* C15: the action codes are 0 = Up, 1 = Down, 2 = Left, 3 = Right: after the
\* move phase of a step the tiles of every column (Up, Down) or row (Left,
\* Right) are packed against row 0 for action 0, row N-1 for action 1,
\* column 0 for action 2 and column N-1 for action 3; the board returned is
\* that board but for the spawned tile.
C15_ActionCodes ==
    [][ActiveStep =>
          /\ Packed(move(board, board_size, act').board, board_size, act')
          /\ Cardinality({p \in Cells(board_size) :
                 board'[p] # move(board, board_size, act').board[p]}) <= 1]_vars

\* Down on a 2x2 board moved a tile, and a column holds its only tile in
\* row 1.
C15_Witness ==
    /\ op = "step" /\ ~err /\ ~was_done /\ moved
    /\ act = 1
    /\ board_size = 2
    /\ \E c \in 0..1 : board[<<0, c>>] = 0 /\ board[<<1, c>>] # 0

\* C16: the four directions are reflections of one transform: moving Right
\* gives the board and reward of mirroring left to right, moving Left and
\* mirroring back; moving Down those of flipping top to bottom, moving Up and
\* flipping back; moving Up those of transposing, moving Left and transposing
\* back.
C16_Reflections ==
    applied =>
        /\ act = 3 =>
              /\ obs = Mirror(move(Mirror(board, board_size), board_size, 2).board,
                              board_size)
              /\ reward = move(Mirror(board, board_size), board_size, 2).reward
        /\ act = 1 =>
              /\ obs = Flip(move(Flip(board, board_size), board_size, 0).board,
                            board_size)
              /\ reward = move(Flip(board, board_size), board_size, 0).reward
        /\ act = 0 =>
              /\ obs = Transpose(move(Transpose(board, board_size), board_size,
                                      2).board, board_size)
              /\ reward = move(Transpose(board, board_size), board_size, 2).reward

\* Right on a row [2,2,2] gave [0,2,4]: the pair at the right edge merged.
C16_Witness ==
    /\ applied /\ op = "move"
    /\ act = 3
    /\ board_size = 3
    /\ RowOf(board, 3, 0) = <<2, 2, 2>>
    /\ RowOf(obs, 3, 0) = <<0, 2, 4>>
    /\ reward >= 4

\* C17 (as stated): a line with a single nonzero value is unaffected by the
\* line transform: the output line equals the input line, with reward 0.
C17_SingleUnaffected ==
    (applied /\ Len(ZeroFree(line)) = 1) =>
        /\ new_line = line
        /\ gained = 0

\* C17 (amended): a line with a single nonzero value keeps that value and
\* merges nothing: the output is the value at the head of the line, zeros
\* after it, with reward 0; it equals the input exactly when the value already
\* was at the head.
C17_SingleSlides ==
    (applied /\ Len(ZeroFree(line)) = 1) =>
        /\ new_line = RightPad(ZeroFree(line), Len(line))
        /\ gained = 0
        /\ new_line = line <=> line[1] # 0

C17_Witness ==
    /\ applied
    /\ line = <<0, 0, 4>>
    /\ new_line = <<4, 0, 0>>
    /\ gained = 0

\* C18: the observation reset or step returns is a snapshot that is
\* independent of the engine's board: it equals the board at the moment of
\* return; an array returned earlier reads as the caller left it whatever the
\* engine did since; and the caller's writing into it leaves the engine's
\* board as it was (equal to the observation last returned).
C18_Snapshot ==
    /\ (op \in {"reset", "step"} /\ ~err) => obs = board
    /\ held.given => Seen(held, board) = held.val
    /\ op = "scribble" => board = obs

\* The caller kept an array, wrote into it, and the engine then moved its
\* tiles.
C18_Witness ==
    /\ held.given /\ held.scribbled
    /\ op = "step" /\ moved
    /\ held.val # board

\* C19: after any step on an engine of size N >= 2 that was reset (its board
\* holds a tile: the board is empty until the first reset and never after),
\* the step returns terminated = true if and only if none of the four actions
\* would change the board returned; when it returns false, some action does.
C19_TerminatedIffStuck ==
    (/\ op = "step" /\ ~err
     /\ board_size >= 2
     /\ TileCount(board, board_size) > 0) =>
        /\ terminated <=> ~LegalMoveRemains(obs, board_size)
        /\ ~terminated => \E a \in 0..3 : move(obs, board_size, a).board # obs

\* A step returned a full board that is not terminal: a merge is its only move.
C19_Witness ==
    /\ op = "step" /\ ~err /\ ~was_done /\ moved
    /\ board_size = 2
    /\ ~terminated
    /\ TileCount(obs, board_size) = 4

\* C20: whenever step spawns after a move that changed the board, the board
\* after the move has an empty cell: the spawn draws its two variates and adds
\* a tile, so step never takes the branch for a board without empty cells;
\* where that branch is taken, the spawn changes nothing and raises nothing
\* (as in the second spawn of reset on a 1x1 board).
C20_SpawnFindsEmpty ==
    [][/\ (ActiveStep /\ moved') =>
             /\ \E p \in Cells(board_size) :
                   /\ RefMoved(board, board_size, act')[p] = 0
                   /\ move(board, board_size, act').board[p] = 0
             /\ rng'.pos = rng.pos + 2
             /\ TileCount(board', board_size)
                   = TileCount(RefMoved(board, board_size, act'), board_size) + 1
       /\ (op' = "reset" /\ board_size = 1) =>
             (~err' /\ TileCount(board', board_size) = 1)
       /\ FullBoardSpawn]_vars

\* The spawn of a step filled the last empty cell, and the game ended.
C20_Witness ==
    /\ op = "step" /\ ~err /\ ~was_done /\ moved
    /\ board_size = 2
    /\ TileCount(board, board_size) = 4
    /\ terminated

\* C21: the no-op override never discards a nonzero reward: for every board
\* and action, a move that accumulates a reward greater than 0 leaves a board
\* that differs from the board it was called on, so the override of step
\* returns the reward of the move as it is.
C21_RewardImpliesChange ==
    applied =>
        /\ reward > 0 => obs # board
        /\ StepReward(board, obs, reward) = reward

\* Up on a 3x3 board merged one pair of 2s.
C21_Witness ==
    /\ applied /\ op = "move"
    /\ board_size = 3
    /\ act = 0
    /\ reward = 4
    /\ obs # board

\* C22 (as stated): for every step on an engine that is not terminated, the
\* reward is 0 if and only if the action left the board unchanged.
C22_ZeroIffNoOp ==
    [][ActiveStep =>
          (reward' = 0 <=> RefNoOp(board, board_size, act'))]_vars

\* C22 (amended): for every step on an engine that is not terminated, the
\* reward is 0 if the action left the board unchanged, and it is 0 if and only
\* if the step merged no tiles: a move that only slides tiles changes the
\* board with reward 0.
C22_ZeroIffNoMerge ==
    [][ActiveStep =>
          /\ RefNoOp(board, board_size, act') => reward' = 0
          /\ reward' = 0 <=> MergeCount(board, board_size, act') = 0]_vars

\* A step slid tiles without a merge: the board changed, the reward is 0.
C22_Witness ==
    /\ op = "step" /\ ~err /\ ~was_done
    /\ board_size = 2
    /\ moved
    /\ reward = 0

\* C23: no state of an episode but the generator's outlives it: two engines
\* whose generators are in one state and whose boards or terminated flags
\* differ have, after a reset without a seed and under the same actions, the
\* same board and terminated flag and return the same observations, rewards
\* and flags, their generators staying alike.
C23_OnlyGeneratorPersists ==
    phase = "restarted" =>
        /\ board = twin.board
        /\ done = twin.done
        /\ rng = twin.rng
        /\ obs = twin.obs
        /\ reward = twin.reward
        /\ terminated = twin.terminated

\* The first engine was terminated when both were reset without a seed, their
\* boards or flags differing: both hold the same two tiles now.
C23_Witness ==
    /\ phase = "restarted"
    /\ op = "reset" /\ was_done /\ ~done
    /\ board_size = 2
    /\ TileCount(board, board_size) = 2
    /\ board = twin.board

\* C24: tile value is conserved: the move of a step leaves the sum of every
\* row or column it transforms as it was, so after a step that changed the
\* board the sum of the cells is the sum before the step plus the spawned tile
\* (2 or 4), and after a no-op step or a step on a terminated engine the sum
\* is unchanged.
C24_BoardSum ==
    [][(op' = "step" /\ ~err') =>
          /\ \A k \in 0..(board_size - 1) :
                SeqSum(EdgeLine(move(board, board_size, act').board,
                                board_size, act', k))
                   = SeqSum(EdgeLine(board, board_size, act', k))
          /\ IF ~done /\ ~RefNoOp(board, board_size, act')
             THEN BoardSum(board', board_size) - BoardSum(board, board_size)
                     \in {2, 4}
             ELSE BoardSum(board', board_size) = BoardSum(board, board_size)]_vars

\* A step merged tiles and spawned one; the cells add up to 12 or more.
C24_Witness ==
    /\ op = "step" /\ ~err /\ ~was_done /\ moved
    /\ board_size = 2
    /\ reward > 0
    /\ BoardSum(board, board_size) >= 12

\* C25: in every state of an engine of size N >= 2 the stored terminated flag
\* agrees with the board: it is set if and only if the board is full and has
\* no two horizontally or vertically adjacent equal cells; the state right
\* after reset is never terminal.
C25_FlagAgreesWithBoard ==
    board_size >= 2 =>
        /\ done <=> RefTerminal(board, board_size)
        /\ op = "reset" => (~done /\ ~RefTerminal(board, board_size))

\* A terminated engine was handed an invalid action: its flag and its full
\* board without pairs are as they were.
C25_Witness ==
    /\ op = "step" /\ err
    /\ board_size = 2
    /\ done
    /\ RefTerminal(board, board_size)

\* C26: every episode made of board-changing steps is finite: after a reset,
\* a caller who keeps stepping with actions that change the board is
\* eventually returned terminated = true.
C26_EpisodeEnds == (op = "reset") ~> terminated

\* An episode ended after ten tiles or more were spawned.
C26_Witness ==
    /\ op = "step" /\ ~err /\ moved
    /\ terminated
    /\ rng.pos >= 20

\* C27: steps that leave the board as it is (moves that change nothing, steps
\* on a terminated engine) do not advance the generator: an engine given any
\* number of them between the steps it shares with a second engine keeps its
\* board and generator equal to the second engine's, and every step they
\* share afterwards returns the same observation, reward and terminated flag
\* to both.  (The flag _done is not in the claim: on a 1x1 board the first
\* step after reset sets it, a step that changes nothing included, and the
\* values returned are the same either way.)
C27_PaddingUnseen ==
    /\ phase \in {"padded", "rejoined"} =>
          /\ board = twin.board
          /\ rng = twin.rng
    /\ phase = "rejoined" =>
          /\ done = twin.done
          /\ obs = twin.obs
          /\ reward = twin.reward
          /\ terminated = twin.terminated

\* After steps that changed nothing were given to the first engine alone, a
\* shared step merged and spawned on both engines.
C27_Witness ==
    /\ phase = "rejoined"
    /\ op = "step" /\ moved /\ reward > 0
    /\ twin.moved /\ twin.reward = reward
    /\ rng.pos >= 6

\* C28: after a reset a board of size N >= 2 holds at least two tiles, and no
\* step brings a board of two tiles or more below two: reset leaves two
\* tiles or more, and every step (changing, no-op, on a terminated engine or
\* rejected) taken on a board of two tiles or more leaves two or more.
C28_TwoTilesKept ==
    [][(/\ board_size >= 2
        /\ op' = "reset" \/ TileCount(board, board_size) >= 2)
          => TileCount(board', board_size) >= 2]_vars

\* A step merged the only two tiles of the board into one, and the spawn
\* brought the board back to two tiles.
C28_Witness ==
    /\ op = "step" /\ ~err /\ moved
    /\ board_size = 2
    /\ reward > 0
    /\ TileCount(board, board_size) = 2

\* C29: tile-count accounting: a step that changes the board leaves as many
\* tiles as there were, less one for every merge of the move, plus the one
\* spawned; a step whose move changes nothing, and a step on a terminated
\* engine, leave as many tiles as there were.
C29_TileAccounting ==
    [][(op' = "step" /\ ~err') =>
          TileCount(board', board_size) =
              IF ~done /\ ~RefNoOp(board, board_size, act')
              THEN TileCount(board, board_size)
                     - MergeCount(board, board_size, act') + 1
              ELSE TileCount(board, board_size)]_vars

\* A step merged two pairs at once, one of 2s and one of 4s (reward 12): four
\* tiles became two, and the spawn made them three.
C29_Witness ==
    /\ op = "step" /\ ~err /\ moved
    /\ board_size = 2
    /\ reward = 12
    /\ TileCount(board, board_size) = 3

\* The part of C30 that is about the board's own type: no tile is larger than
\* 2^(N*N+1), every cell is within the signed 32-bit range, and twice any
\* tile of the board is within it as well (the doubling of a merge, line
\* 173, does not wrap around).
C30_WithinInt32 ==
    \A p \in Cells(board_size) :
        /\ board[p] <= Pow2(board_size * board_size + 1)
        /\ board[p] <= Int32Max
        /\ 2 * board[p] <= Int32Max

\* C30: tile values stay bounded: in every state of an episode on an N x N
\* board no tile is larger than 2^(N*N+1), so every cell is within the signed
\* 32-bit range and the doubling of a merge does not wrap around, and every
\* value returned is within the upper bound 2^16 of the declared observation
\* space.
C30_TilesBounded ==
    /\ C30_WithinInt32
    /\ \A p \in Cells(board_size) : obs[p] <= ObservationHigh

\* The bound 2^(N*N+1) is met: a step has merged two tiles into it (32 on the
\* 2x2 board, 131072 on the 4x4 board).
C30_Witness ==
    /\ op = "step" /\ ~err /\ moved
    /\ reward >= Pow2(board_size * board_size + 1)
    /\ \E p \in Cells(board_size) : obs[p] = Pow2(board_size * board_size + 1)

====
